---- MODULE Spec2Model ----
(***************************************************************************)
(* Model of the Zabbix JSON-RPC client of terraform-provider-zabbix:       *)
(* the transport client (Client.Request / RequestWithContext), the entity  *)
(* operations built on it and the Terraform resource handlers that call    *)
(* them.                                                                   *)
(***************************************************************************)
EXTENDS Integers, Sequences, FiniteSets, TLC

VARIABLES
    client,   \* the zabbix.Client: URL, Token, Timeout, requestID
    call,     \* per caller: the Request / RequestWithContext call in flight
    log,      \* the request envelopes built so far, in the order of their ids
    last,     \* the call that returned most recently, with what it returned
    op,       \* the entity operation that returned most recently
    tf        \* the resource handler that ran most recently, with its response

vars == <<client, call, log, last, op, tf>>

-----------------------------------------------------------------------------
(* Bounds of the model *)

\* goroutines sharing the one client
NumCallers == 2
\* calls made on the client in one behaviour
MaxCalls == 3
\* entity operations run in one behaviour
MaxOps == 2
\* resource handlers start while the client has handed out fewer request ids
MaxHandlerIDs == 1

Callers == 1..NumCallers

-----------------------------------------------------------------------------
(* Wire types: internal/zabbix/types.go *)

\* http.StatusOK
StatusOK == 200
\* time.Duration of DefaultTimeout, in seconds
DefaultTimeout == 30
\* the id the mock server of TestRequest_ResponseIDMismatch answers with
MismatchID == 999

Nil == [t |-> "nil"]
NoError == [kind |-> "nil"]
NoCall == [fn |-> "none"]

URLs == {"http://zabbix.example/api_jsonrpc.php", "://bad"}
Tokens == {"", "test-token"}
Methods == {"apiinfo.version", "host.get"}

\* params values a caller passes: nil, a keyed object, a value json.Marshal rejects
EmptyObject == [t |-> "obj", m |-> <<>>]
ParamValues ==
    {Nil, [t |-> "obj", m |-> <<<<"output", "extend">>>>],
     [t |-> "arr", items |-> <<"10084">>], [t |-> "chan"]}

\* zabbix.Error values a server answers with
Errors ==
    {[Code |-> -32602, Message |-> "Invalid params.",
      Data |-> "No permissions to referred object or it does not exist!"],
     [Code |-> -32500, Message |-> "Application error.", Data |-> ""]}

\* a raw result payload holding a JSON string
StrPayload(s) == [t |-> "str", s |-> s]

Absent == [t |-> "absent"]

-----------------------------------------------------------------------------
(* HTTP exchange: what the server, or the network, answers to one POST *)

\* http.Response.Status for a status code
StatusLine(code) ==
    CASE code = 200 -> "200 OK"
      [] code = 204 -> "204 No Content"
      [] code = 404 -> "404 Not Found"
      [] code = 500 -> "500 Internal Server Error"
      [] OTHER -> "unknown"

\* a response body: empty, text that is no JSON, or a JSON object with an id and
\* optional result and error members
Bodies(reqID) ==
    {[t |-> "empty"], [t |-> "text"]}
    \cup {[t |-> "json", id |-> i, result |-> r, error |-> e] :
            i \in {reqID, MismatchID},
            r \in {StrPayload("ok"), Absent},
            e \in Errors \cup {Absent}}

NoResponse == [kind |-> "none"]

\* the outcomes of http.Client.Do: it failed and nothing came back, or a response
\* with a status and a body
Responses(reqID) ==
    {[kind |-> "fail", cause |-> "connection refused"],
     [kind |-> "fail", cause |-> "Client.Timeout exceeded"]}
    \cup {[kind |-> "http", StatusCode |-> s, Status |-> StatusLine(s), body |-> b] :
            s \in {200, 204, 404, 500}, b \in Bodies(reqID)}

\* the answers of a server: of any server every outcome; of a well-behaved one the
\* two that matter to the allocation of ids, a well-formed success and a transport
\* failure
Answers(server, reqID) ==
    IF server = "any"
    THEN Responses(reqID)
    ELSE {[kind |-> "fail", cause |-> "connection refused"],
          [kind |-> "http", StatusCode |-> StatusOK, Status |-> StatusLine(StatusOK),
           body |-> [t |-> "json", id |-> reqID, result |-> StrPayload("ok"),
                     error |-> Absent]]}

-----------------------------------------------------------------------------
(* Client.Request: unnamed/part_002 *)

\* NewClient(url, token)
NewClient(url, token) ==
    [URL |-> url, Token |-> token, Timeout |-> DefaultTimeout, requestID |-> 0]

noAuthMethods == {"apiinfo.version"}

\* atomic.Int64.Add: the new value, stored and returned in one step
AtomicAddLoadOnly(v, delta) == v
AtomicAdd(v, delta) == v + delta

\* the value of the counter the caller's Add operates on
LoadCounterStale(c) ==
    IF \E d \in Callers \ {c} : call[d] # NoCall /\ call[d].req.ID = client.requestID
    THEN client.requestID - 1
    ELSE client.requestID
LoadCounter(c) == client.requestID

\* a Request that sends nil params as they are
NormalizeParamsKeepsNil(params) == params
\* if params == nil { params = map[string]interface{}{} }
NormalizeParams(params) == IF params = Nil THEN EmptyObject ELSE params

\* if !noAuthMethods[method] { req.Auth = c.Token }
AuthForSkipsNothing(method, token) == token
AuthFor(method, token) == IF method \in noAuthMethods THEN "" ELSE token

\* the Request struct built by Client.Request
BuildRequest(method, params, id, token) ==
    [JSONRPC |-> "2.0", Method |-> method, Params |-> NormalizeParams(params),
     ID |-> id, Auth |-> AuthFor(method, token)]

\* json.Marshal(req) fails on a value that has no JSON form
Marshalable(req) == req.Params.t # "chan"

\* json.Marshal(req): `auth` has omitempty, so an empty Auth leaves the key out
MarshalRequest(req) ==
    [jsonrpc |-> req.JSONRPC, method |-> req.Method, params |-> req.Params,
     id |-> req.ID,
     auth |-> IF req.Auth = "" THEN Absent ELSE StrPayload(req.Auth)]

\* the auth a server reads from the envelope (an absent key decodes to "")
DecodedAuth(wire) == IF wire.auth = Absent THEN "" ELSE wire.auth.s

\* http.NewRequest fails when the URL does not parse
ValidURL(url) == url # "://bad"

\* json.NewDecoder(body).Decode(&resp): whether the body is a response envelope
Decodes(body) == body.t = "json"

\* the decoded Response struct: absent members stay nil
DecodeResponse(body) ==
    [ID |-> body.id,
     Result |-> IF body.result = Absent THEN Nil ELSE body.result,
     Error |-> IF body.error = Absent THEN Nil ELSE body.error]

Failure(err) == [result |-> Nil, err |-> err]
Success(result) == [result |-> result, err |-> NoError]

\* httpResp.StatusCode != http.StatusOK
StatusRejectedOnlyServerErrors(code) == code >= 500
StatusRejected(code) == code # StatusOK

\* &APIError{Method: method, Err: resp.Error}
MakeAPIErrorNoMethod(method, e) == [kind |-> "APIError", Method |-> "", Err |-> e]
MakeAPIError(method, e) == [kind |-> "APIError", Method |-> method, Err |-> e]

\* a Request that returns the result of an envelope whenever it has one
RequestOutcomeResultFirst(method, req, resp) ==
    IF resp.kind = "fail"
    THEN Failure([kind |-> "send", cause |-> resp.cause])
    ELSE IF StatusRejected(resp.StatusCode)
    THEN Failure([kind |-> "HTTPError", StatusCode |-> resp.StatusCode,
                  Status |-> resp.Status])
    ELSE IF ~Decodes(resp.body)
    THEN Failure([kind |-> "decode", cause |-> resp.body.t])
    ELSE LET r == DecodeResponse(resp.body) IN
         IF r.Result # Nil
         THEN Success(r.Result)
         ELSE IF r.Error # Nil
         THEN Failure(MakeAPIError(method, r.Error))
         ELSE Success(r.Result)
\* what Client.Request returns once http.Client.Do has come back with resp
RequestOutcome(method, req, resp) ==
    IF resp.kind = "fail"
    THEN Failure([kind |-> "send", cause |-> resp.cause])
    ELSE IF StatusRejected(resp.StatusCode)
    THEN Failure([kind |-> "HTTPError", StatusCode |-> resp.StatusCode,
                  Status |-> resp.Status])
    ELSE IF ~Decodes(resp.body)
    THEN Failure([kind |-> "decode", cause |-> resp.body.t])
    ELSE LET r == DecodeResponse(resp.body) IN
         IF r.Error # Nil
         THEN Failure(MakeAPIError(method, r.Error))
         ELSE Success(r.Result)

-----------------------------------------------------------------------------
(* Client.RequestWithContext: the context-aware variant *)

CtxCanceledError == [kind |-> "send", cause |-> "context canceled"]
IDMismatchError == [kind |-> "response id mismatch"]

\* the HTTP call is aborted once the caller's context is cancelled
AbortsNever(ctx) == FALSE
Aborts(ctx) == ctx = "canceled"

\* what RequestWithContext returns once the server has answered with resp
RequestWithContextOutcome(method, req, resp) ==
    IF resp.kind = "fail"
    THEN Failure([kind |-> "send", cause |-> resp.cause])
    ELSE IF resp.StatusCode \notin 200..299
    THEN Failure([kind |-> "HTTPError", StatusCode |-> resp.StatusCode,
                  Status |-> resp.Status])
    ELSE IF ~Decodes(resp.body)
    THEN Failure([kind |-> "decode", cause |-> resp.body.t])
    ELSE LET r == DecodeResponse(resp.body) IN
         IF r.ID # req.ID
         THEN Failure(IDMismatchError)
         ELSE IF r.Error # Nil
         THEN Failure(MakeAPIError(method, r.Error))
         ELSE Success(r.Result)

-----------------------------------------------------------------------------
(* The calls of the transport client as steps *)

Returned(c, inflight, resp, ret) ==
    [caller |-> c, fn |-> inflight.fn, method |-> inflight.method,
     params |-> inflight.params, req |-> inflight.req, wire |-> inflight.wire,
     ctx |-> inflight.ctx, posts |-> inflight.posts, resp |-> resp, ret |-> ret]

\* the head of a call, up to and including the POST: lines 57-84 of Request
Begin(c, fn, ctx) ==
    /\ call[c] = NoCall
    /\ client.requestID < MaxCalls
    /\ \E method \in Methods, params \in ParamValues :
         LET id == AtomicAdd(LoadCounter(c), 1)
             req == BuildRequest(method, params, id, client.Token)
             early == [fn |-> fn, method |-> method, params |-> params, req |-> req,
                       wire |-> Absent, ctx |-> ctx, posts |-> 0]
         IN  /\ client' = [client EXCEPT !.requestID = id]
             /\ log' = Append(log, id)
             /\ IF ~Marshalable(req)
                THEN /\ last' = Returned(c, early, NoResponse,
                                   Failure([kind |-> "marshal", cause |-> req.Params.t]))
                     /\ call' = call
                ELSE IF ~ValidURL(client.URL)
                THEN /\ last' = Returned(c, early, NoResponse,
                                   Failure([kind |-> "newrequest", cause |-> client.URL]))
                     /\ call' = call
                ELSE /\ call' = [call EXCEPT ![c] =
                                   [early EXCEPT !.wire = MarshalRequest(req),
                                                 !.posts = IF Aborts(ctx) THEN 0 ELSE 1]]
                     /\ last' = last
    /\ UNCHANGED <<op, tf>>

RequestBegin(c) == Begin(c, "Request", "background")

\* a Request that gives its id back to the counter when it fails
RequestReturnReleasesID(c, server) ==
    /\ call[c] # NoCall
    /\ call[c].fn = "Request"
    /\ \E resp \in Answers(server, call[c].req.ID) :
         LET out == RequestOutcome(call[c].method, call[c].req, resp) IN
         /\ last' = Returned(c, call[c], resp, out)
         /\ client' = IF out.err # NoError
                       THEN [client EXCEPT !.requestID = @ - 1]
                       ELSE client
    /\ call' = [call EXCEPT ![c] = NoCall]
    /\ UNCHANGED <<log, op, tf>>
\* a Request that posts the request again after a failure
RequestReturnRetries(c, server) ==
    /\ call[c] # NoCall
    /\ call[c].fn = "Request"
    /\ \E resp \in Answers(server, call[c].req.ID) :
         LET out == RequestOutcome(call[c].method, call[c].req, resp) IN
         IF out.err # NoError /\ call[c].posts < 2
         THEN /\ call' = [call EXCEPT ![c].posts = @ + 1]
              /\ last' = last
         ELSE /\ last' = Returned(c, call[c], resp, out)
              /\ call' = [call EXCEPT ![c] = NoCall]
    /\ UNCHANGED <<client, log, op, tf>>
\* http.Client.Do comes back and Request runs to its return: lines 84-109
RequestReturn(c, server) ==
    /\ call[c] # NoCall
    /\ call[c].fn = "Request"
    /\ \E resp \in Answers(server, call[c].req.ID) :
         last' = Returned(c, call[c], resp,
                          RequestOutcome(call[c].method, call[c].req, resp))
    /\ call' = [call EXCEPT ![c] = NoCall]
    /\ UNCHANGED <<client, log, op, tf>>

RequestWithContextBegin(c) ==
    \E ctx \in {"active", "canceled"} : Begin(c, "RequestWithContext", ctx)

\* the caller cancels the context of a call in flight
CancelContext(c) ==
    /\ call[c] # NoCall
    /\ call[c].fn = "RequestWithContext"
    /\ call[c].ctx = "active"
    /\ call' = [call EXCEPT ![c].ctx = "canceled"]
    /\ UNCHANGED <<client, log, last, op, tf>>

\* the server answers a call whose context is still live
RequestWithContextReturn(c, server) ==
    /\ call[c] # NoCall
    /\ call[c].fn = "RequestWithContext"
    /\ ~Aborts(call[c].ctx)
    /\ \E resp \in Answers(server, call[c].req.ID) :
         last' = Returned(c, call[c], resp,
                          RequestWithContextOutcome(call[c].method, call[c].req, resp))
    /\ call' = [call EXCEPT ![c] = NoCall]
    /\ UNCHANGED <<client, log, op, tf>>

\* the call is aborted because its context is cancelled
RequestWithContextAbort(c) ==
    /\ call[c] # NoCall
    /\ call[c].fn = "RequestWithContext"
    /\ Aborts(call[c].ctx)
    /\ last' = Returned(c, call[c], NoResponse, Failure(CtxCanceledError))
    /\ call' = [call EXCEPT ![c] = NoCall]
    /\ UNCHANGED <<client, log, op, tf>>

-----------------------------------------------------------------------------
(* Entity codecs: internal/zabbix/host.go, unnamed/part_001, template_group.go *)

\* a keyed parameter object and a positional parameter array
Obj(m) == [t |-> "obj", m |-> m]
\* the ids under a key, as the mutating operations of other APIs send them
KeyedIDs(items) == [t |-> "obj", m |-> <<<<"ids", items>>>>]
Arr(items) == [t |-> "arr", items |-> items]

\* a keyed object is the list of its members, in the order the code sets them
KV(k, v) == <<k, v>>

\* params[k] = v whatever cond is
PutAlways(cond, m, k, v) == Append(m, KV(k, v))
\* params[k] = v when cond holds
PutIf(cond, m, k, v) == IF cond THEN Append(m, KV(k, v)) ELSE m

\* a Go slice: nil, or a (possibly empty) list
NilSlice == [isnil |-> TRUE, items |-> <<>>]
Slice(items) == [isnil |-> FALSE, items |-> items]

\* result payloads: JSON null, {"<key>": [ids]}, and an array of entities
NullPayload == [t |-> "null"]
IDsPayload(key, ids) == [t |-> "obj", key |-> key, ids |-> ids]
ArrPayload(items) == [t |-> "arr", items |-> items]

\* a string whose characters the code inspects is the list of its characters
DigitChars == <<"0", "1", "2", "3", "4", "5", "6", "7", "8", "9">>

\* strconv.Atoi succeeds: an optional sign, then one or more decimal digits
IsInt(s) ==
    LET digits == IF Len(s) > 0 /\ s[1] \in {"+", "-"} THEN Tail(s) ELSE s
    IN  Len(digits) > 0 /\ \A i \in 1..Len(digits) :
                                \E d \in 1..Len(DigitChars) : DigitChars[d] = digits[i]

\* the value of a run of decimal digits
RECURSIVE DigitsValue(_)
DigitsValue(digits) ==
    IF Len(digits) = 0 THEN 0
    ELSE 10 * DigitsValue(SubSeq(digits, 1, Len(digits) - 1))
         + (CHOOSE i \in 1..Len(DigitChars) : DigitChars[i] = digits[Len(digits)]) - 1

\* a parse that drops the sign
AtoiUnsigned(s) ==
    IF s[1] \in {"+", "-"} THEN DigitsValue(Tail(s)) ELSE DigitsValue(s)
\* strconv.Atoi on a string it accepts
Atoi(s) ==
    IF s[1] = "-" THEN 0 - DigitsValue(Tail(s))
    ELSE IF s[1] = "+" THEN DigitsValue(Tail(s))
    ELSE DigitsValue(s)

\* the decimal rendering of an integer, as the server echoes a number in a string
RECURSIVE Digits(_)
Digits(n) ==
    IF n < 10 THEN <<DigitChars[n + 1]>>
    ELSE Append(Digits(n \div 10), DigitChars[(n % 10) + 1])
Itoa(n) == IF n < 0 THEN <<"-">> \o Digits(0 - n) ELSE Digits(n)

\* json.Unmarshal(data, &hij): every member of hostInterfaceJSON is a string, so a
\* member that holds a number fails the decode and an absent member stays empty
hostInterfaceJSON(m) ==
    LET member(k, empty) ==
            IF \E i \in 1..Len(m) : m[i][1] = k
            THEN m[CHOOSE i \in 1..Len(m) : m[i][1] = k][2].s
            ELSE empty
    IN  IF \E i \in 1..Len(m) : m[i][2].t # "str"
        THEN [ok |-> FALSE]
        ELSE [ok |-> TRUE,
              v |-> [interfaceid |-> member("interfaceid", ""),
                     type |-> member("type", <<>>),
                     main |-> member("main", <<>>),
                     useip |-> member("useip", <<>>),
                     ip |-> member("ip", ""), dns |-> member("dns", ""),
                     port |-> member("port", "")]]

\* a decode that leaves a field at 0 when its string does not parse
HostInterfaceUnmarshalLenient(w) ==
    [ok |-> TRUE,
     v |-> [InterfaceID |-> w.interfaceid,
            Type |-> IF IsInt(w.type) THEN Atoi(w.type) ELSE 0,
            Main |-> IF IsInt(w.main) THEN Atoi(w.main) ELSE 0,
            UseIP |-> IF IsInt(w.useip) THEN Atoi(w.useip) ELSE 0,
            IP |-> w.ip, DNS |-> w.dns, Port |-> w.port]]
\* HostInterface.UnmarshalJSON, after the decode into hostInterfaceJSON
HostInterfaceUnmarshal(w) ==
    IF w.type # <<>> /\ ~IsInt(w.type)
    THEN [ok |-> FALSE, err |-> [kind |-> "invalid interface type value", raw |-> w.type]]
    ELSE IF w.main # <<>> /\ ~IsInt(w.main)
    THEN [ok |-> FALSE, err |-> [kind |-> "invalid interface main value", raw |-> w.main]]
    ELSE IF w.useip # <<>> /\ ~IsInt(w.useip)
    THEN [ok |-> FALSE, err |-> [kind |-> "invalid interface useip value", raw |-> w.useip]]
    ELSE [ok |-> TRUE,
          v |-> [InterfaceID |-> w.interfaceid,
                 Type |-> IF w.type # <<>> THEN Atoi(w.type) ELSE 0,
                 Main |-> IF w.main # <<>> THEN Atoi(w.main) ELSE 0,
                 UseIP |-> IF w.useip # <<>> THEN Atoi(w.useip) ELSE 0,
                 IP |-> w.ip, DNS |-> w.dns, Port |-> w.port]]

\* HostInterface.MarshalJSON: numbers as JSON integers, interfaceid only when set
HostInterfaceMarshal(hi) ==
    LET num(n) == [t |-> "num", n |-> n]
        m == <<KV("type", num(hi.Type)), KV("main", num(hi.Main)),
               KV("useip", num(hi.UseIP)), KV("ip", StrPayload(hi.IP)),
               KV("dns", StrPayload(hi.DNS)), KV("port", StrPayload(hi.Port))>>
    IN  PutIf(hi.InterfaceID # "", m, "interfaceid", StrPayload(hi.InterfaceID))

\* Host.UnmarshalJSON
HostUnmarshal(w) ==
    LET ifs == [i \in 1..Len(w.interfaces) |-> HostInterfaceUnmarshal(w.interfaces[i])]
    IN  IF \E i \in 1..Len(ifs) : ~ifs[i].ok
        THEN [ok |-> FALSE,
              err |-> ifs[CHOOSE i \in 1..Len(ifs) :
                            ~ifs[i].ok /\ \A j \in 1..(i - 1) : ifs[j].ok].err]
        ELSE IF w.status # <<>> /\ ~IsInt(w.status)
        THEN [ok |-> FALSE, err |-> [kind |-> "invalid status value", raw |-> w.status]]
        ELSE [ok |-> TRUE,
              v |-> [t |-> "host", HostID |-> w.hostid, Host |-> w.host,
                     Name |-> w.name,
                     Status |-> IF w.status # <<>> THEN Atoi(w.status) ELSE 0,
                     Interfaces |-> [i \in 1..Len(ifs) |-> ifs[i].v]]]

\* HostGroup and TemplateGroup decode field by field
GroupUnmarshal(kind, w) ==
    [ok |-> TRUE, v |-> [t |-> kind, GroupID |-> w.groupid, Name |-> w.name,
                         UUID |-> w.uuid]]

\* Template decodes field by field
TemplateUnmarshal(w) ==
    [ok |-> TRUE, v |-> [t |-> "template", TemplateID |-> w.templateid,
                         Host |-> w.host, Name |-> w.name,
                         Description |-> w.description, UUID |-> w.uuid]]

EntityUnmarshal(kind, w) ==
    CASE kind = "host" -> HostUnmarshal(w)
      [] kind = "template" -> TemplateUnmarshal(w)
      [] OTHER -> GroupUnmarshal(kind, w)

\* json.Unmarshal(result, &resp) into a struct with one []string member `key`
UnmarshalIDs(result, key) ==
    CASE result.t = "null" -> [ok |-> TRUE, ids |-> <<>>]
      [] result.t = "obj" ->
            [ok |-> TRUE, ids |-> IF result.key = key THEN result.ids ELSE <<>>]
      [] OTHER -> [ok |-> FALSE, ids |-> <<>>]

\* json.Unmarshal(result, &entities) into a slice of entities of one kind
UnmarshalEntities(result, kind) ==
    CASE result.t = "null" -> [ok |-> TRUE, items |-> <<>>]
      [] result.t = "arr" ->
            LET ds == [i \in 1..Len(result.items) |->
                          EntityUnmarshal(kind, result.items[i])]
            IN  IF \A i \in 1..Len(ds) : ds[i].ok
                THEN [ok |-> TRUE, items |-> [i \in 1..Len(ds) |-> ds[i].v]]
                ELSE [ok |-> FALSE, items |-> <<>>]
      [] OTHER -> [ok |-> FALSE, items |-> <<>>]

-----------------------------------------------------------------------------
(* Entity operations: what each returns for the outcome `out` of its transport call *)

IDKey(kind) ==
    CASE kind = "host" -> "hostids"
      [] kind = "template" -> "templateids"
      [] OTHER -> "groupids"

Ret(value, err) == [value |-> value, err |-> err]
UnmarshalError(method) == [kind |-> "unmarshal", method |-> method]
NoIDsError(method) == [kind |-> "returned no IDs", method |-> method]

\* a Create that wraps the transport error in a plain error
CreateResultWraps(method, key, out) ==
    IF out.err # NoError
    THEN Ret("", [kind |-> "failed to create", method |-> method, cause |-> out.err])
    ELSE LET d == UnmarshalIDs(out.result, key) IN
         IF ~d.ok THEN Ret("", UnmarshalError(method))
         ELSE IF Len(d.ids) = 0 THEN Ret("", NoIDsError(method))
         ELSE Ret(d.ids[1], NoError)
\* a Create that returns the last id of the list
CreateResultLastID(method, key, out) ==
    IF out.err # NoError THEN Ret("", out.err)
    ELSE LET d == UnmarshalIDs(out.result, key) IN
         IF ~d.ok THEN Ret("", UnmarshalError(method))
         ELSE IF Len(d.ids) = 0 THEN Ret("", NoIDsError(method))
         ELSE Ret(d.ids[Len(d.ids)], NoError)
\* the tail shared by the Create operations: decode the ids, fail on none, first id
CreateResult(method, key, out) ==
    IF out.err # NoError THEN Ret("", out.err)
    ELSE LET d == UnmarshalIDs(out.result, key) IN
         IF ~d.ok THEN Ret("", UnmarshalError(method))
         ELSE IF Len(d.ids) = 0 THEN Ret("", NoIDsError(method))
         ELSE Ret(d.ids[1], NoError)

MutateResultUnchecked(method, key, out) ==
    IF out.err # NoError THEN Ret(Nil, out.err)
    ELSE IF ~UnmarshalIDs(out.result, key).ok THEN Ret(Nil, UnmarshalError(method))
    ELSE Ret(Nil, NoError)
\* the tail shared by the Update and Delete operations
MutateResult(method, key, out) ==
    IF out.err # NoError THEN Ret(Nil, out.err)
    ELSE LET d == UnmarshalIDs(out.result, key) IN
         IF ~d.ok THEN Ret(Nil, UnmarshalError(method))
         ELSE IF Len(d.ids) = 0 THEN Ret(Nil, NoIDsError(method))
         ELSE Ret(Nil, NoError)

GetResultStrict(method, kind, out) ==
    IF out.err # NoError THEN Ret(Nil, out.err)
    ELSE LET d == UnmarshalEntities(out.result, kind) IN
         IF ~d.ok THEN Ret(Nil, UnmarshalError(method))
         ELSE IF Len(d.items) = 0 THEN Ret(Nil, [kind |-> "not found", method |-> method])
         ELSE Ret(d.items[1], NoError)
\* the tail shared by the Get operations: decode the entities, nil on none, first one
GetResult(method, kind, out) ==
    IF out.err # NoError THEN Ret(Nil, out.err)
    ELSE LET d == UnmarshalEntities(out.result, kind) IN
         IF ~d.ok THEN Ret(Nil, UnmarshalError(method))
         ELSE IF Len(d.items) = 0 THEN Ret(Nil, NoError)
         ELSE Ret(d.items[1], NoError)

\* ImportConfiguration: the result is dropped, the error returned
ImportResult(out) == Ret(Nil, out.err)

\* ExportConfiguration: json.Unmarshal(result, &exported) into a string
ExportResult(method, out) ==
    IF out.err # NoError THEN Ret("", out.err)
    ELSE CASE out.result.t = "str" -> Ret(out.result.s, NoError)
           [] out.result.t = "null" -> Ret("", NoError)
           [] OTHER -> Ret("", UnmarshalError(method))

\* what an operation of `class` on `kind` returns for the outcome of its transport call
OperationResult(class, kind, method, out) ==
    CASE class = "create" -> CreateResult(method, IDKey(kind), out)
      [] class \in {"update", "delete"} -> MutateResult(method, IDKey(kind), out)
      [] class = "get" -> GetResult(method, kind, out)
      [] class = "import" -> ImportResult(out)
      [] class = "export" -> ExportResult(method, out)

-----------------------------------------------------------------------------
(* Entity operations: the parameters each sends *)

GroupRefs(groups) == [i \in 1..Len(groups) |-> <<KV("groupid", groups[i].GroupID)>>]
TemplateRefs(ts) == [i \in 1..Len(ts) |-> <<KV("templateid", ts[i].TemplateID)>>]
TagMaps(tags) ==
    [i \in 1..Len(tags) |-> <<KV("tag", tags[i].Tag), KV("value", tags[i].Value)>>]

InterfaceMap(iface) ==
    <<KV("type", iface.Type), KV("main", iface.Main), KV("useip", iface.UseIP),
      KV("ip", iface.IP), KV("dns", iface.DNS), KV("port", iface.Port)>>

\* the interface maps of UpdateHost: interfaceid when set
UpdateInterfaceMaps(ifs) ==
    [i \in 1..Len(ifs) |->
        PutIf(ifs[i].InterfaceID # "", InterfaceMap(ifs[i]),
              "interfaceid", ifs[i].InterfaceID)]

CreateHostParams(host) ==
    LET m0 == <<KV("host", host.Host), KV("status", host.Status)>>
        m1 == PutIf(host.Name # "", m0, "name", host.Name)
        m2 == PutIf(Len(host.Groups) > 0, m1, "groups", GroupRefs(host.Groups))
        m3 == PutIf(Len(host.Interfaces) > 0, m2, "interfaces",
                    [i \in 1..Len(host.Interfaces) |->
                        InterfaceMap(host.Interfaces[i])])
        m4 == PutIf(Len(host.Templates) > 0, m3, "templates",
                    TemplateRefs(host.Templates))
        m5 == PutIf(Len(host.Tags.items) > 0, m4, "tags", TagMaps(host.Tags.items))
    IN  Obj(m5)

\* GetHostParams and its kin marshal with omitempty: unset members are left out
SelectAllHost ==
    <<KV("output", "extend"), KV("selectGroups", "extend"),
      KV("selectInterfaces", "extend"), KV("selectTags", "extend"),
      KV("selectParentTemplates", "extend")>>

\* UpdateHost with the status guarded like the optional members
UpdateHostParamsOmitsZeroStatus(host) ==
    LET m0 == <<KV("hostid", host.HostID)>>
        m1 == PutIf(host.Host # "", m0, "host", host.Host)
        m2 == PutIf(host.Name # "", m1, "name", host.Name)
        m3 == PutIf(host.Status # 0, m2, "status", host.Status)
        m4 == PutIf(Len(host.Groups) > 0, m3, "groups", GroupRefs(host.Groups))
        m5 == PutIf(Len(host.Interfaces) > 0, m4, "interfaces",
                    UpdateInterfaceMaps(host.Interfaces))
        m6 == PutIf(Len(host.Templates) > 0, m5, "templates",
                    TemplateRefs(host.Templates))
        m7 == PutIf(~host.Tags.isnil, m6, "tags", TagMaps(host.Tags.items))
    IN  Obj(m7)
UpdateHostParams(host) ==
    LET m0 == <<KV("hostid", host.HostID)>>
        m1 == PutIf(host.Host # "", m0, "host", host.Host)
        m2 == PutIf(host.Name # "", m1, "name", host.Name)
        m3 == PutIf(TRUE, m2, "status", host.Status)
        m4 == PutIf(Len(host.Groups) > 0, m3, "groups", GroupRefs(host.Groups))
        m5 == PutIf(Len(host.Interfaces) > 0, m4, "interfaces",
                    UpdateInterfaceMaps(host.Interfaces))
        m6 == PutIf(Len(host.Templates) > 0, m5, "templates",
                    TemplateRefs(host.Templates))
        m7 == PutIf(~host.Tags.isnil, m6, "tags", TagMaps(host.Tags.items))
    IN  Obj(m7)



CreateTemplateParams(template) ==
    LET m0 == <<KV("host", template.Host)>>
        m1 == PutIf(template.Name # "", m0, "name", template.Name)
        m2 == PutIf(template.Description # "", m1, "description", template.Description)
        m3 == PutIf(Len(template.Groups) > 0, m2, "groups", GroupRefs(template.Groups))
        m4 == PutIf(Len(template.Tags.items) > 0, m3, "tags",
                    TagMaps(template.Tags.items))
    IN  Obj(m4)

SelectAllTemplate ==
    <<KV("output", "extend"), KV("selectGroups", "extend"), KV("selectTags", "extend")>>


UpdateTemplateParams(template) ==
    LET m0 == <<KV("templateid", template.TemplateID)>>
        m1 == PutIf(template.Host # "", m0, "host", template.Host)
        m2 == PutIf(template.Name # "", m1, "name", template.Name)
        m3 == PutIf(template.Description # "", m2, "description", template.Description)
        m4 == PutIf(Len(template.Groups) > 0, m3, "groups", GroupRefs(template.Groups))
        m5 == PutIf(~template.Tags.isnil, m4, "tags", TagMaps(template.Tags.items))
    IN  Obj(m5)



-----------------------------------------------------------------------------
(* Entity operations as steps *)

\* inputs the callers pass
EntityIDs == {"10084"}
EntityNames == {"Linux servers"}

\* a template source is its lines; a trimmed line is the key it opens with and the
\* characters after it
SourceFormats == {"yaml", "json", "xml", ""}
SourceContents ==
    {<<[key |-> "zabbix_export:", rest |-> <<>>], [key |-> "template:", rest |-> q]>> :
        q \in {<<"T">>, <<"\"", "T", "\"">>, <<"'", "T">>, <<>>}}
    \cup {<<[key |-> "template:", rest |-> <<"T">>]>>, <<>>}

SampleInterfaces ==
    {[InterfaceID |-> iid, Type |-> 1, Main |-> 1, UseIP |-> 1,
      IP |-> "192.168.1.100", DNS |-> "", Port |-> "10050"] :
        iid \in {"", "7"}}

SampleTags ==
    {NilSlice, Slice(<<>>), Slice(<<[Tag |-> "env", Value |-> "prod"]>>)}

\* the hosts the callers pass: the lists all empty or all filled, the rest free
SampleHosts ==
    LET all ==
    {[HostID |-> "10084", Host |-> "test-server", Name |-> n, Status |-> st,
      Groups |-> g, Interfaces |-> ifs, Templates |-> tp, Tags |-> tg] :
        n \in {"", "Test Server"}, st \in {0, 1},
        g \in {<<>>, <<[GroupID |-> "2", Name |-> ""]>>},
        ifs \in {<<>>} \cup {<<i>> : i \in SampleInterfaces},
        tp \in {<<>>, <<[TemplateID |-> "10001"]>>},
        tg \in SampleTags}
    IN  {h \in all :
            /\ (Len(h.Groups) = 0) = (Len(h.Interfaces) = 0)
            /\ (Len(h.Groups) = 0) = (Len(h.Templates) = 0)}

\* the templates the callers pass: with a technical name or a visible name
SampleTemplates ==
    LET all ==
    {[TemplateID |-> "10084", Host |-> h, Name |-> n, Description |-> d,
      Groups |-> g, Tags |-> tg] :
        h \in {"", "Template OS"}, n \in {"", "Template OS Linux"},
        d \in {"", "managed"},
        g \in {<<>>, <<[GroupID |-> "2", Name |-> ""]>>},
        tg \in SampleTags}
    IN  {t \in all : t.Host # "" \/ t.Name # ""}

\* entities as the server renders them: numbers as strings
WireInterfaces ==
    {[interfaceid |-> "7", type |-> ty, main |-> <<"1">>, useip |-> u,
      ip |-> "192.168.1.100", dns |-> "", port |-> "10050"] :
        ty \in {<<"1">>, <<"a", "g", "e", "n", "t">>}, u \in {<<"1">>, <<>>}}

WireHosts ==
    {[hostid |-> "10084", host |-> "test-server", name |-> "Test Server",
      status |-> st, interfaces |-> ifs] :
        st \in {<<"0">>, <<"1">>, <<>>, <<"o", "n">>},
        ifs \in {<<>>} \cup {<<i>> : i \in WireInterfaces}}

WireGroups ==
    {[groupid |-> "2", name |-> "Linux servers", uuid |-> u] : u \in {"", "dc579cd7"}}

WireTemplates ==
    {[templateid |-> "10084", host |-> "Template OS", name |-> "Template OS Linux",
      description |-> d, uuid |-> "e2307c94"] : d \in {"", "managed"}}

WireEntities(kind) ==
    CASE kind = "host" -> WireHosts
      [] kind = "template" -> WireTemplates
      [] OTHER -> WireGroups

\* the result payloads a server answers with: to a mutating operation the id lists
\* under every key, to a read the entity arrays; and the shapes neither decodes
OpPayloads(class, kind) ==
    {NullPayload, StrPayload("ok"), ArrPayload(<<>>),
     IDsPayload(IDKey(kind), <<"10084">>)}
    \cup (IF class = "get"
          THEN {ArrPayload(<<e>>) : e \in WireEntities(kind)}
               \cup {ArrPayload(<<e, CHOOSE f \in WireEntities(kind) : TRUE>>) :
                        e \in WireEntities(kind)}
          ELSE {IDsPayload(k, ids) : k \in {"hostids", "groupids", "templateids"},
                                     ids \in {<<>>, <<"10084">>, <<"10084", "10085">>}})

OKResponse(id, result, error) ==
    [kind |-> "http", StatusCode |-> StatusOK, Status |-> StatusLine(StatusOK),
     body |-> [t |-> "json", id |-> id, result |-> result, error |-> error]]

\* the answers to the transport call of an operation of `class` on `kind`
OpResponses(class, kind, reqID) ==
    {[kind |-> "fail", cause |-> "connection refused"],
     [kind |-> "http", StatusCode |-> 500, Status |-> StatusLine(500),
      body |-> [t |-> "empty"]],
     [kind |-> "http", StatusCode |-> StatusOK, Status |-> StatusLine(StatusOK),
      body |-> [t |-> "text"]],
     OKResponse(MismatchID, IDsPayload(IDKey(kind), <<"10084">>), Absent),
     OKResponse(reqID, Absent, Absent)}
    \cup {OKResponse(reqID, Absent, e) : e \in Errors}
    \cup {OKResponse(reqID, r, Absent) : r \in OpPayloads(class, kind)}

\* c.RequestWithContext(ctx, method, params) with a live context, run to its return
Transport(method, req, resp) ==
    IF ~Marshalable(req)
    THEN Failure([kind |-> "marshal", cause |-> req.Params.t])
    ELSE IF ~ValidURL(client.URL)
    THEN Failure([kind |-> "newrequest", cause |-> client.URL])
    ELSE RequestWithContextOutcome(method, req, resp)

\* the head of an entity operation: it builds its parameters and calls
\* c.RequestWithContext, which allocates the id and posts the request
Perform(name, class, kind, method, input, params) ==
    /\ client.requestID < MaxOps
    /\ op.phase # "inflight"
    /\ \A c \in Callers : call[c] = NoCall
    /\ LET id == AtomicAdd(LoadCounter(1), 1)
           req == BuildRequest(method, params, id, client.Token)
       IN  /\ client' = [client EXCEPT !.requestID = id]
           /\ log' = Append(log, id)
           /\ op' = [phase |-> "inflight", op |-> name, class |-> class,
                     kind |-> kind, method |-> method, input |-> input,
                     req |-> req, resp |-> NoResponse, out |-> Failure(NoError),
                     ret |-> Ret(Nil, [kind |-> "pending"])]
    /\ UNCHANGED <<call, last, tf>>

CreateHost ==
    \E host \in SampleHosts :
        Perform("CreateHost", "create", "host", "host.create", host,
                CreateHostParams(host))
GetHost ==
    \E id \in EntityIDs :
        Perform("GetHost", "get", "host", "host.get", id,
                Obj(<<KV("hostids", <<id>>)>> \o SelectAllHost))
GetHostByName ==
    \E n \in EntityNames :
        Perform("GetHostByName", "get", "host", "host.get", n,
                Obj(<<KV("filter", <<KV("host", n)>>)>> \o SelectAllHost))
UpdateHost ==
    \E host \in SampleHosts :
        Perform("UpdateHost", "update", "host", "host.update", host,
                UpdateHostParams(host))
DeleteHost ==
    \E id \in EntityIDs :
        Perform("DeleteHost", "delete", "host", "host.delete", id,
                Arr(<<id>>))

CreateHostGroup ==
    \E n \in EntityNames :
        Perform("CreateHostGroup", "create", "hostgroup", "hostgroup.create", n,
                Obj(<<KV("name", n)>>))
GetHostGroup ==
    \E id \in EntityIDs :
        Perform("GetHostGroup", "get", "hostgroup", "hostgroup.get", id,
                Obj(<<KV("groupids", <<id>>), KV("output", "extend")>>))
GetHostGroupByName ==
    \E n \in EntityNames :
        Perform("GetHostGroupByName", "get", "hostgroup", "hostgroup.get", n,
                Obj(<<KV("filter", <<KV("name", n)>>), KV("output", "extend")>>))
UpdateHostGroup ==
    \E id \in EntityIDs, n \in EntityNames :
        Perform("UpdateHostGroup", "update", "hostgroup", "hostgroup.update",
                <<id, n>>, Obj(<<KV("groupid", id), KV("name", n)>>))
DeleteHostGroup ==
    \E id \in EntityIDs :
        Perform("DeleteHostGroup", "delete", "hostgroup", "hostgroup.delete", id,
                Arr(<<id>>))

CreateTemplate ==
    \E t \in SampleTemplates :
        Perform("CreateTemplate", "create", "template", "template.create", t,
                CreateTemplateParams(t))
GetTemplate ==
    \E id \in EntityIDs :
        Perform("GetTemplate", "get", "template", "template.get", id,
                Obj(<<KV("templateids", <<id>>)>> \o SelectAllTemplate))
GetTemplateByHost ==
    \E n \in EntityNames :
        Perform("GetTemplateByHost", "get", "template", "template.get", n,
                Obj(<<KV("filter", <<KV("host", n)>>)>> \o SelectAllTemplate))
UpdateTemplate ==
    \E t \in SampleTemplates :
        Perform("UpdateTemplate", "update", "template", "template.update", t,
                UpdateTemplateParams(t))
DeleteTemplate ==
    \E id \in EntityIDs :
        Perform("DeleteTemplate", "delete", "template", "template.delete", id,
                Arr(<<id>>))

CreateTemplateGroup ==
    \E n \in EntityNames :
        Perform("CreateTemplateGroup", "create", "templategroup",
                "templategroup.create", n,
                Obj(<<KV("name", n)>>))
GetTemplateGroup ==
    \E id \in EntityIDs :
        Perform("GetTemplateGroup", "get", "templategroup", "templategroup.get", id,
                Obj(<<KV("groupids", <<id>>), KV("output", "extend")>>))
GetTemplateGroupByName ==
    \E n \in EntityNames :
        Perform("GetTemplateGroupByName", "get", "templategroup",
                "templategroup.get", n,
                Obj(<<KV("filter", <<KV("name", n)>>), KV("output", "extend")>>))
UpdateTemplateGroup ==
    \E id \in EntityIDs, n \in EntityNames :
        Perform("UpdateTemplateGroup", "update", "templategroup",
                "templategroup.update", <<id, n>>,
                Obj(<<KV("groupid", id), KV("name", n)>>))
DeleteTemplateGroup ==
    \E id \in EntityIDs :
        Perform("DeleteTemplateGroup", "delete", "templategroup",
                "templategroup.delete", id,
                Arr(<<id>>))

\* ImportConfiguration(ctx, format, source): the rules are fixed by the code
ImportRules ==
    LET both == <<KV("createMissing", TRUE), KV("updateExisting", TRUE)>> IN
    <<KV("templates", both), KV("template_groups", <<KV("createMissing", TRUE)>>),
      KV("items", both), KV("triggers", both), KV("discoveryRules", both),
      KV("valueMaps", both)>>

ImportConfiguration ==
    \E f \in SourceFormats, src \in SourceContents :
        Perform("ImportConfiguration", "import", "template", "configuration.import",
                <<f, src>>,
                Obj(<<KV("format", f), KV("source", src), KV("rules", ImportRules)>>))
ExportConfiguration ==
    \E f \in SourceFormats, id \in EntityIDs :
        Perform("ExportConfiguration", "export", "template", "configuration.export",
                <<f, <<id>>>>,
                Obj(<<KV("format", f), KV("options", <<KV("templates", <<id>>)>>)>>))

\* the transport call of the operation in flight comes back and the operation runs
\* to its return
OperationReturn ==
    /\ op.phase = "inflight"
    /\ \E resp \in OpResponses(op.class, op.kind, op.req.ID) :
         LET out == Transport(op.method, op.req, resp) IN
         op' = [op EXCEPT !.phase = "returned", !.resp = resp, !.out = out,
                          !.ret = OperationResult(op.class, op.kind, op.method, out)]
    /\ UNCHANGED <<client, call, log, last, tf>>

-----------------------------------------------------------------------------
(* Terraform resources: the handlers of the four resource kinds *)

\* what the k-th entity operation a handler calls can return: its request id follows
\* the client's, and the parameters of the entity operations always marshal
NthReturns(k, class, kind, method) ==
    LET id == AtomicAdd(client.requestID, k)
        req == BuildRequest(method, EmptyObject, id, client.Token)
    IN  {OperationResult(class, kind, method, Transport(method, req, resp)) :
            resp \in OpResponses(class, kind, id)}

\* a handler's response as the framework hands it over: no diagnostics, and the
\* prior state (null for Create)
Response(handler, kind, prior) ==
    [handler |-> handler, kind |-> kind, prior |-> prior, calls |-> <<>>,
     errors |-> <<>>, warnings |-> <<>>, state |-> prior, stateSet |-> FALSE,
     removed |-> FALSE, panicked |-> FALSE]

\* r.client.<op>(ctx, input) returned ret
Called(r, opname, input, ret) ==
    [r EXCEPT !.calls = Append(@, [op |-> opname, input |-> input, ret |-> ret])]

\* resp.Diagnostics.AddError(summary, ...)
AddError(r, summary) == [r EXCEPT !.errors = Append(@, summary)]

\* resp.Diagnostics.AddWarning(summary, ...)
AddWarning(r, summary) == [r EXCEPT !.warnings = Append(@, summary)]

\* resp.State.Set(ctx, &data)
StateSet(r, data) == [r EXCEPT !.state = data, !.stateSet = TRUE]

\* resp.State.RemoveResource(ctx)
RemoveResource(r) == [r EXCEPT !.state = Nil, !.removed = TRUE]

\* a member read through a nil pointer: the handler panics where it stands
NilDereference(r) == [r EXCEPT !.panicked = TRUE]

\* the framework calls a handler: in one behaviour, while the client has handed out
\* fewer than MaxHandlerIDs request ids
HandlerMayStart == client.requestID < MaxHandlerIDs

\* the handler returns (or panics) with response r: every entity operation it called
\* took one request id
Handle(r) ==
    /\ client.requestID < MaxHandlerIDs
    /\ op.phase # "inflight"
    /\ \A c \in Callers : call[c] = NoCall
    /\ client' = [client EXCEPT !.requestID = AtomicAdd(@, Len(r.calls))]
    /\ log' = log \o [i \in 1..Len(r.calls) |-> AtomicAdd(client.requestID, i)]
    /\ tf' = r
    /\ UNCHANGED <<call, last, op>>

\* the state a resource holds before Read, Update and Delete
PriorStates == {[ID |-> id] : id \in EntityIDs \cup {"10085"}}

\* data.ID, data.Name, data.UUID of the group resources
GroupModel(group) == [ID |-> group.GroupID, Name |-> group.Name, UUID |-> group.UUID]

HostGroupResourceCreate ==
    /\ HandlerMayStart
    /\ \E name \in EntityNames :
       \E created \in NthReturns(1, "create", "hostgroup", "hostgroup.create") :
           LET r1 == Called(Response("Create", "hostgroup", Nil),
                            "CreateHostGroup", name, created)
           IN  IF created.err # NoError
               THEN Handle(AddError(r1, "Error Creating Host Group"))
               ELSE \E got \in NthReturns(2, "get", "hostgroup", "hostgroup.get") :
                       LET r2 == Called(r1, "GetHostGroup", created.value, got) IN
                       IF got.err # NoError
                       THEN Handle(AddError(r2, "Error Reading Host Group"))
                       ELSE IF got.value = Nil
                       THEN Handle(NilDereference(r2))
                       ELSE Handle(StateSet(r2, GroupModel(got.value)))

HostGroupResourceRead ==
    /\ HandlerMayStart
    /\ \E state \in PriorStates :
       \E got \in NthReturns(1, "get", "hostgroup", "hostgroup.get") :
           LET r1 == Called(Response("Read", "hostgroup", state),
                            "GetHostGroup", state.ID, got)
           IN  IF got.err # NoError
               THEN Handle(AddError(r1, "Error Reading Host Group"))
               ELSE IF got.value = Nil
               THEN Handle(RemoveResource(r1))
               ELSE Handle(StateSet(r1, GroupModel(got.value)))

HostGroupResourceUpdate ==
    /\ HandlerMayStart
    /\ \E name \in EntityNames, state \in PriorStates :
       \E updated \in NthReturns(1, "update", "hostgroup", "hostgroup.update") :
           LET r1 == Called(Response("Update", "hostgroup", state),
                            "UpdateHostGroup", <<state.ID, name>>, updated)
           IN  IF updated.err # NoError
               THEN Handle(AddError(r1, "Error Updating Host Group"))
               ELSE \E got \in NthReturns(2, "get", "hostgroup", "hostgroup.get") :
                       LET r2 == Called(r1, "GetHostGroup", state.ID, got) IN
                       IF got.err # NoError
                       THEN Handle(AddError(r2, "Error Reading Host Group"))
                       ELSE IF got.value = Nil
                       THEN Handle(NilDereference(r2))
                       ELSE Handle(StateSet(r2, GroupModel(got.value)))

HostGroupResourceDelete ==
    /\ HandlerMayStart
    /\ \E state \in PriorStates :
       \E deleted \in NthReturns(1, "delete", "hostgroup", "hostgroup.delete") :
           LET r1 == Called(Response("Delete", "hostgroup", state),
                            "DeleteHostGroup", state.ID, deleted)
           IN  IF deleted.err # NoError
               THEN Handle(AddError(r1, "Error Deleting Host Group"))
               ELSE Handle(r1)

TemplateGroupResourceCreate ==
    /\ HandlerMayStart
    /\ \E name \in EntityNames :
       \E created \in NthReturns(1, "create", "templategroup", "templategroup.create") :
           LET r1 == Called(Response("Create", "templategroup", Nil),
                            "CreateTemplateGroup", name, created)
           IN  IF created.err # NoError
               THEN Handle(AddError(r1, "Error Creating Template Group"))
               ELSE \E got \in NthReturns(2, "get", "templategroup", "templategroup.get") :
                       LET r2 == Called(r1, "GetTemplateGroup", created.value, got) IN
                       IF got.err # NoError
                       THEN Handle(AddError(r2, "Error Reading Template Group"))
                       ELSE IF got.value = Nil
                       THEN Handle(NilDereference(r2))
                       ELSE Handle(StateSet(r2, GroupModel(got.value)))

TemplateGroupResourceRead ==
    /\ HandlerMayStart
    /\ \E state \in PriorStates :
       \E got \in NthReturns(1, "get", "templategroup", "templategroup.get") :
           LET r1 == Called(Response("Read", "templategroup", state),
                            "GetTemplateGroup", state.ID, got)
           IN  IF got.err # NoError
               THEN Handle(AddError(r1, "Error Reading Template Group"))
               ELSE IF got.value = Nil
               THEN Handle(RemoveResource(r1))
               ELSE Handle(StateSet(r1, GroupModel(got.value)))

TemplateGroupResourceUpdate ==
    /\ HandlerMayStart
    /\ \E name \in EntityNames, state \in PriorStates :
       \E updated \in NthReturns(1, "update", "templategroup", "templategroup.update") :
           LET r1 == Called(Response("Update", "templategroup", state),
                            "UpdateTemplateGroup", <<state.ID, name>>, updated)
           IN  IF updated.err # NoError
               THEN Handle(AddError(r1, "Error Updating Template Group"))
               ELSE \E got \in NthReturns(2, "get", "templategroup", "templategroup.get") :
                       LET r2 == Called(r1, "GetTemplateGroup", state.ID, got) IN
                       IF got.err # NoError
                       THEN Handle(AddError(r2, "Error Reading Template Group"))
                       ELSE IF got.value = Nil
                       THEN Handle(NilDereference(r2))
                       ELSE Handle(StateSet(r2, GroupModel(got.value)))

TemplateGroupResourceDelete ==
    /\ HandlerMayStart
    /\ \E state \in PriorStates :
       \E deleted \in NthReturns(1, "delete", "templategroup", "templategroup.delete") :
           LET r1 == Called(Response("Delete", "templategroup", state),
                            "DeleteTemplateGroup", state.ID, deleted)
           IN  IF deleted.err # NoError
               THEN Handle(AddError(r1, "Error Deleting Template Group"))
               ELSE Handle(r1)

\* interfaceTypeToString
interfaceTypeToString(t) ==
    CASE t = 1 -> "agent" [] t = 2 -> "snmp" [] t = 3 -> "ipmi" [] t = 4 -> "jmx"
      [] OTHER -> "agent"

\* HostResource.apiToModel, on the members HostUnmarshal fills; the hosts here carry
\* at most one interface, which sort.Slice leaves in place
HostModel(host) ==
    [ID |-> host.HostID, Host |-> host.Host, Name |-> host.Name,
     Status |-> host.Status,
     Interfaces |->
        [i \in 1..Len(host.Interfaces) |->
            LET iface == host.Interfaces[i] IN
            [interface_id |-> iface.InterfaceID,
             type |-> interfaceTypeToString(iface.Type),
             ip |-> iface.IP, dns |-> iface.DNS, port |-> iface.Port,
             main |-> (iface.Main = 1), use_ip |-> (iface.UseIP = 1)]]]

\* the hosts HostResource.modelToAPI makes of the plans
HostPlans == {h \in SampleHosts : h.Name # "" /\ h.Status = 0 /\ h.Tags.isnil}

\* data.Tags of a plan: a null list, or a list of tag objects
PlannedTags ==
    {[null |-> TRUE, elems |-> <<>>], [null |-> FALSE, elems |-> <<>>],
     [null |-> FALSE, elems |-> <<[tag |-> "env", value |-> "prod"]>>]}

\* a conversion that allocates the tag slice before it fills it
modelToAPITagsAllocates(tags) ==
    IF tags.null THEN NilSlice
    ELSE Slice([i \in 1..Len(tags.elems) |->
                   [Tag |-> tags.elems[i].tag, Value |-> tags.elems[i].value]])
\* HostResource.modelToAPI, the tags: host.Tags starts nil and grows by append, so
\* it is nil for a null list and for a list without elements
modelToAPITags(tags) ==
    IF tags.null \/ Len(tags.elems) = 0 THEN NilSlice
    ELSE Slice([i \in 1..Len(tags.elems) |->
                   [Tag |-> tags.elems[i].tag, Value |-> tags.elems[i].value]])

\* the response of a handler, with the planned tags it was called with
WithPlannedTags(r, tags) ==
    [handler |-> r.handler, kind |-> r.kind, prior |-> r.prior, calls |-> r.calls,
     errors |-> r.errors,
     warnings |-> r.warnings, state |-> r.state, stateSet |-> r.stateSet,
     removed |-> r.removed, panicked |-> r.panicked, plannedTags |-> tags]

HostResourceCreate ==
    /\ HandlerMayStart
    /\ \E plan \in HostPlans, tags \in PlannedTags :
       \E created \in NthReturns(1, "create", "host", "host.create") :
           LET host == [plan EXCEPT !.Tags = modelToAPITags(tags)]
               r1 == Called(WithPlannedTags(Response("Create", "host", Nil), tags),
                            "CreateHost", host, created)
           IN  IF created.err # NoError
               THEN Handle(AddError(r1, "Error Creating Host"))
               ELSE \E got \in NthReturns(2, "get", "host", "host.get") :
                       LET r2 == Called(r1, "GetHost", created.value, got) IN
                       IF got.err # NoError
                       THEN Handle(AddError(r2, "Error Reading Host"))
                       ELSE IF got.value = Nil
                       THEN Handle(AddError(r2, "Error Reading Host"))
                       ELSE Handle(StateSet(r2, HostModel(got.value)))

HostResourceRead ==
    /\ HandlerMayStart
    /\ \E state \in PriorStates :
       \E got \in NthReturns(1, "get", "host", "host.get") :
           LET r1 == Called(Response("Read", "host", state), "GetHost", state.ID, got)
           IN  IF got.err # NoError
               THEN Handle(AddError(r1, "Error Reading Host"))
               ELSE IF got.value = Nil
               THEN Handle(RemoveResource(r1))
               ELSE Handle(StateSet(r1, HostModel(got.value)))

HostResourceUpdate ==
    /\ HandlerMayStart
    /\ \E plan \in HostPlans, tags \in PlannedTags, state \in PriorStates :
       \E updated \in NthReturns(1, "update", "host", "host.update") :
           LET host == [plan EXCEPT !.HostID = state.ID, !.Tags = modelToAPITags(tags)]
               r1 == Called(WithPlannedTags(Response("Update", "host", state), tags),
                            "UpdateHost", host, updated)
           IN  IF updated.err # NoError
               THEN Handle(AddError(r1, "Error Updating Host"))
               ELSE \E got \in NthReturns(2, "get", "host", "host.get") :
                       LET r2 == Called(r1, "GetHost", state.ID, got) IN
                       IF got.err # NoError
                       THEN Handle(AddError(r2, "Error Reading Host"))
                       ELSE IF got.value = Nil
                       THEN Handle(AddError(r2, "Error Reading Host"))
                       ELSE Handle(StateSet(r2, HostModel(got.value)))

HostResourceDelete ==
    /\ HandlerMayStart
    /\ \E state \in PriorStates :
       \E deleted \in NthReturns(1, "delete", "host", "host.delete") :
           LET r1 == Called(Response("Delete", "host", state),
                            "DeleteHost", state.ID, deleted)
           IN  IF deleted.err # NoError
               THEN Handle(AddError(r1, "Error Deleting Host"))
               ELSE Handle(r1)

\* trimQuotes, on a list of characters
trimQuotes(s) ==
    IF /\ Len(s) >= 2
       /\ \/ s[1] = "\"" /\ s[Len(s)] = "\""
          \/ s[1] = "'" /\ s[Len(s)] = "'"
    THEN SubSeq(s, 2, Len(s) - 1)
    ELSE s

\* extractHostFromYAML: the first "template:" line below a "templates:" or
\* "zabbix_export:" line, unquoted
extractHostFromYAML(content) ==
    LET marker(j) == content[j].key \in {"templates:", "zabbix_export:"}
                     /\ content[j].rest = <<>>
        hit(i) == content[i].key = "template:" /\ \E j \in 1..(i - 1) : marker(j)
    IN  IF \E i \in 1..Len(content) : hit(i)
        THEN trimQuotes(content[CHOOSE i \in 1..Len(content) :
                                    hit(i) /\ \A j \in 1..(i - 1) : ~hit(j)].rest)
        ELSE <<>>

\* extractHostFromContent: the JSON and XML extractors return ""
extractHostFromContent(content, format) ==
    IF format = "yaml" THEN extractHostFromYAML(content) ELSE <<>>

\* TemplateResource.apiToModel, on the members TemplateUnmarshal fills
TemplateModel(template, exportedContent) ==
    [ID |-> template.TemplateID, Host |-> template.Host, Name |-> template.Name,
     Description |-> template.Description, UUID |-> template.UUID,
     ExportedContent |-> IF exportedContent # "" THEN exportedContent ELSE Nil]

\* the plans of a template: the template modelToAPI makes of it, and the source
TemplatePlans ==
    {[template |-> t, SourceFormat |-> f, SourceContent |-> src] :
        t \in {t \in SampleTemplates :
                 t.Host # "" /\ t.Name # "" /\ t.Description = "" /\ t.Tags.isnil
                 /\ Len(t.Groups) > 0},
        f \in SourceFormats,
        src \in {[isnull |-> TRUE, lines |-> <<>>]}
                \cup {[isnull |-> FALSE, lines |-> c] :
                         c \in {c \in SourceContents : 
                                Len(c) = 1 \/ (Len(c) = 2 /\ Len(c[2].rest) = 3)}}}

\* a handler that treats a failed export like the failures before it
ExportOrFail(r, k, templateID, template) ==
    \E exported \in NthReturns(k, "export", "template", "configuration.export") :
        LET r1 == Called(r, "ExportConfiguration", <<"yaml", <<templateID>>>>, exported)
        IN  IF exported.err # NoError
            THEN Handle(AddError(r1, "Error Exporting Template"))
            ELSE Handle(StateSet(r1, TemplateModel(template, exported.value)))
\* the tail of TemplateResource's Create, Read and Update once the template is read:
\* export it, warn when the export fails, and store
ExportAndStore(r, k, templateID, template) ==
    \E exported \in NthReturns(k, "export", "template", "configuration.export") :
        LET r1 == Called(r, "ExportConfiguration", <<"yaml", <<templateID>>>>, exported)
            r2 == IF exported.err # NoError
                  THEN AddWarning(r1, "Error Exporting Template") ELSE r1
        IN  Handle(StateSet(r2, TemplateModel(template, exported.value)))

\* the read-back of TemplateResource's Create and Update, as the k-th call
ReadBackTemplate(r, k, templateID) ==
    \E got \in NthReturns(k, "get", "template", "template.get") :
        LET r1 == Called(r, "GetTemplate", templateID, got) IN
        IF got.err # NoError
        THEN Handle(AddError(r1, "Error Reading Template"))
        ELSE IF got.value = Nil
        THEN Handle(AddError(r1, "Error Reading Template"))
        ELSE ExportAndStore(r1, k + 1, templateID, got.value)

TemplateResourceCreate ==
    /\ HandlerMayStart
    /\ \E plan \in TemplatePlans :
           LET r0 == Response("Create", "template", Nil) IN
           IF ~plan.SourceContent.isnull
           THEN IF plan.SourceFormat = ""
                THEN Handle(AddError(r0, "Missing source_format"))
                ELSE \E imported \in NthReturns(1, "import", "template",
                                                "configuration.import") :
                       LET r1 == Called(r0, "ImportConfiguration",
                                        <<plan.SourceFormat, plan.SourceContent.lines>>, imported)
                           host == extractHostFromContent(plan.SourceContent.lines,
                                                          plan.SourceFormat)
                       IN  IF imported.err # NoError
                           THEN Handle(AddError(r1, "Error Importing Template"))
                           ELSE IF host = <<>>
                           THEN Handle(AddError(r1, "Error Finding Template"))
                           ELSE \E found \in NthReturns(2, "get", "template",
                                                        "template.get") :
                                   LET r2 == Called(r1, "GetTemplateByHost", host, found) IN
                                   IF found.err # NoError \/ found.value = Nil
                                   THEN Handle(AddError(r2,
                                                   "Error Finding Imported Template"))
                                   ELSE ReadBackTemplate(r2, 3, found.value.TemplateID)
           ELSE \E created \in NthReturns(1, "create", "template", "template.create") :
                   LET r1 == Called(r0, "CreateTemplate", plan.template, created) IN
                   IF created.err # NoError
                   THEN Handle(AddError(r1, "Error Creating Template"))
                   ELSE ReadBackTemplate(r1, 2, created.value)

TemplateResourceRead ==
    /\ HandlerMayStart
    /\ \E state \in PriorStates :
       \E got \in NthReturns(1, "get", "template", "template.get") :
           LET r1 == Called(Response("Read", "template", state),
                            "GetTemplate", state.ID, got)
           IN  IF got.err # NoError
               THEN Handle(AddError(r1, "Error Reading Template"))
               ELSE IF got.value = Nil
               THEN Handle(RemoveResource(r1))
               ELSE ExportAndStore(r1, 2, state.ID, got.value)

TemplateResourceUpdate ==
    /\ HandlerMayStart
    /\ \E plan \in TemplatePlans, state \in PriorStates :
           LET r0 == Response("Update", "template", state) IN
           IF ~plan.SourceContent.isnull
           THEN IF plan.SourceFormat = ""
                THEN Handle(AddError(r0, "Missing source_format"))
                ELSE \E imported \in NthReturns(1, "import", "template",
                                                "configuration.import") :
                       LET r1 == Called(r0, "ImportConfiguration",
                                        <<plan.SourceFormat, plan.SourceContent.lines>>, imported)
                       IN  IF imported.err # NoError
                           THEN Handle(AddError(r1, "Error Importing Template"))
                           ELSE ReadBackTemplate(r1, 2, state.ID)
           ELSE \E updated \in NthReturns(1, "update", "template", "template.update") :
                   LET template == [plan.template EXCEPT !.TemplateID = state.ID]
                       r1 == Called(r0, "UpdateTemplate", template, updated)
                   IN  IF updated.err # NoError
                       THEN Handle(AddError(r1, "Error Updating Template"))
                       ELSE ReadBackTemplate(r1, 2, state.ID)

TemplateResourceDelete ==
    /\ HandlerMayStart
    /\ \E state \in PriorStates :
       \E deleted \in NthReturns(1, "delete", "template", "template.delete") :
           LET r1 == Called(Response("Delete", "template", state),
                            "DeleteTemplate", state.ID, deleted)
           IN  IF deleted.err # NoError
               THEN Handle(AddError(r1, "Error Deleting Template"))
               ELSE Handle(r1)

-----------------------------------------------------------------------------
(* Terraform data sources: the Read of the four data sources *)

\* a Read that takes absence as a resource's Read does
DataSourceAbsentRemoves(r, summary) == Handle(RemoveResource(r))
\* if x == nil { resp.Diagnostics.AddError("... Not Found", ...); return }
DataSourceAbsent(r, summary) == Handle(AddError(r, summary))

HostDataSourceRead ==
    /\ HandlerMayStart
    /\ \E name \in EntityNames :
       \E got \in NthReturns(1, "get", "host", "host.get") :
           LET r1 == Called(Response("DataSourceRead", "host", Nil),
                            "GetHostByName", name, got)
           IN  IF got.err # NoError
               THEN Handle(AddError(r1, "Error Reading Host"))
               ELSE IF got.value = Nil
               THEN DataSourceAbsent(r1, "Host Not Found")
               ELSE Handle(StateSet(r1, HostModel(got.value)))

HostGroupDataSourceRead ==
    /\ HandlerMayStart
    /\ \E name \in EntityNames :
       \E got \in NthReturns(1, "get", "hostgroup", "hostgroup.get") :
           LET r1 == Called(Response("DataSourceRead", "hostgroup", Nil),
                            "GetHostGroupByName", name, got)
           IN  IF got.err # NoError
               THEN Handle(AddError(r1, "Error Reading Host Group"))
               ELSE IF got.value = Nil
               THEN DataSourceAbsent(r1, "Host Group Not Found")
               ELSE Handle(StateSet(r1, GroupModel(got.value)))

TemplateGroupDataSourceRead ==
    /\ HandlerMayStart
    /\ \E name \in EntityNames :
       \E got \in NthReturns(1, "get", "templategroup", "templategroup.get") :
           LET r1 == Called(Response("DataSourceRead", "templategroup", Nil),
                            "GetTemplateGroupByName", name, got)
           IN  IF got.err # NoError
               THEN Handle(AddError(r1, "Error Reading Template Group"))
               ELSE IF got.value = Nil
               THEN DataSourceAbsent(r1, "Template Group Not Found")
               ELSE Handle(StateSet(r1, GroupModel(got.value)))

\* the template data source also exports the template it found
TemplateDataSourceRead ==
    /\ HandlerMayStart
    /\ \E name \in EntityNames :
       \E got \in NthReturns(1, "get", "template", "template.get") :
           LET r1 == Called(Response("DataSourceRead", "template", Nil),
                            "GetTemplateByHost", name, got)
           IN  IF got.err # NoError
               THEN Handle(AddError(r1, "Error Reading Template"))
               ELSE IF got.value = Nil
               THEN DataSourceAbsent(r1, "Template Not Found")
               ELSE ExportAndStore(r1, 2, got.value.TemplateID, got.value)

-----------------------------------------------------------------------------
(* Specifications *)

NoHandler == [handler |-> "none"]

Init ==
    /\ \E url \in URLs, token \in Tokens : client = NewClient(url, token)
    /\ call = [c \in Callers |-> NoCall]
    /\ log = <<>>
    /\ last = NoCall
    /\ op = [phase |-> "none"]
    /\ tf = NoHandler

\* one caller, calls one after the other, every answer a server can give
Next ==
    \/ RequestBegin(1)
    \/ RequestReturn(1, "any")
    \/ RequestWithContextBegin(1)
    \/ CancelContext(1)
    \/ RequestWithContextReturn(1, "any")
    \/ RequestWithContextAbort(1)

Spec == Init /\ [][Next]_vars

\* as Spec; a cancelled call is scheduled until it returns, while nothing obliges
\* the server to answer
LiveSpec == Spec /\ WF_vars(RequestWithContextAbort(1))

\* several goroutines share the client
ConcNext ==
    \E c \in Callers :
        \/ RequestBegin(c)
        \/ RequestReturn(c, "plain")

ConcSpec == Init /\ [][ConcNext]_vars

\* the entity operations, one after the other
OpsNext ==
    \/ CreateHost \/ GetHost \/ GetHostByName \/ UpdateHost \/ DeleteHost
    \/ CreateHostGroup \/ GetHostGroup \/ GetHostGroupByName
    \/ UpdateHostGroup \/ DeleteHostGroup
    \/ CreateTemplate \/ GetTemplate \/ GetTemplateByHost
    \/ UpdateTemplate \/ DeleteTemplate
    \/ CreateTemplateGroup \/ GetTemplateGroup \/ GetTemplateGroupByName
    \/ UpdateTemplateGroup \/ DeleteTemplateGroup
    \/ ImportConfiguration \/ ExportConfiguration
    \/ OperationReturn

OpsSpec == Init /\ [][OpsNext]_vars

\* the handlers of the resources and of the data sources, one after the other
ResNext ==
    \/ HostResourceCreate \/ HostResourceRead
    \/ HostResourceUpdate \/ HostResourceDelete
    \/ HostGroupResourceCreate \/ HostGroupResourceRead
    \/ HostGroupResourceUpdate \/ HostGroupResourceDelete
    \/ TemplateResourceCreate \/ TemplateResourceRead
    \/ TemplateResourceUpdate \/ TemplateResourceDelete
    \/ TemplateGroupResourceCreate \/ TemplateGroupResourceRead
    \/ TemplateGroupResourceUpdate \/ TemplateGroupResourceDelete
    \/ HostDataSourceRead \/ HostGroupDataSourceRead
    \/ TemplateDataSourceRead \/ TemplateGroupDataSourceRead

ResSpec == Init /\ [][ResNext]_vars

-----------------------------------------------------------------------------
(* The host codecs on their own: encode, the server's echo, decode *)

\* the largest value of an interface's numeric fields
MaxFieldValue == 12

\* the interfaces a caller encodes
CodecInterfaces ==
    {[InterfaceID |-> iid, Type |-> ty, Main |-> mn, UseIP |-> u,
      IP |-> ip, DNS |-> "", Port |-> "10050"] :
        iid \in {"", "7"}, ty \in -1..MaxFieldValue, mn \in {0, 1}, u \in {0, 1},
        ip \in {"", "192.168.1.100"}}

\* the strings a server puts in a numeric member
NumericStrings ==
    {<<>>, <<"0">>, <<"1">>, <<"1", "0">>, <<"0", "7">>, <<"-", "1">>, <<"+", "2">>,
     <<"x">>, <<"1", "x">>, <<"-">>}

\* the interface objects a server sends: numeric members as strings, any of the
\* members left out, and one with a JSON number
WireInterfaceObjects ==
    LET full(ty, mn, u) ==
            <<KV("interfaceid", StrPayload("7")), KV("type", StrPayload(ty)),
              KV("main", StrPayload(mn)), KV("useip", StrPayload(u)),
              KV("ip", StrPayload("192.168.1.100")), KV("dns", StrPayload("")),
              KV("port", StrPayload("10050"))>>
        without(m, keys) ==
            LET keep(kv) == kv[1] \notin keys IN SelectSeq(m, keep)
    IN  {without(full(ty, mn, u), keys) :
            ty \in NumericStrings, mn \in {<<"1">>, <<"x">>, <<>>},
            u \in {<<"0">>, <<"y">>},
            keys \in SUBSET {"interfaceid", "type", "main", "useip"}}
        \cup {<<KV("type", [t |-> "num", n |-> 1]), KV("main", StrPayload(<<"1">>))>>}

\* the hosts a server sends, after the decode into hostJSON
WireCodecHosts ==
    {[hostid |-> "10084", host |-> "test-server", name |-> "Test Server",
      status |-> st, interfaces |-> ifs] :
        st \in NumericStrings,
        ifs \in {<<>>} \cup {<<i>> : i \in WireInterfaces}
                \cup {<<i, j>> : i, j \in WireInterfaces}}

\* a codec run starts from the value to encode, or from the object or the host a
\* server sent
CodecInit ==
    LET zero == [InterfaceID |-> "", Type |-> 0, Main |-> 0, UseIP |-> 0,
                 IP |-> "", DNS |-> "", Port |-> ""]
        run(step, x, json, w) ==
            [phase |-> "codec", step |-> step, x |-> x, enc |-> <<>>, json |-> json,
             w |-> w, hij |-> [ok |-> FALSE], out |-> [ok |-> FALSE]]
    IN  /\ client = NewClient("http://zabbix.example/api_jsonrpc.php", "test-token")
        /\ call = [c \in Callers |-> NoCall]
        /\ log = <<>>
        /\ last = NoCall
        /\ tf = NoHandler
        /\ \/ \E x \in CodecInterfaces : op = run("value", x, <<>>, <<>>)
           \/ \E m \in WireInterfaceObjects : op = run("echoed", zero, m, <<>>)
           \/ \E h \in WireCodecHosts : op = run("wirehost", zero, <<>>, <<h>>)

\* json.Marshal(x) for a HostInterface x
MarshalInterface ==
    /\ op.phase = "codec" /\ op.step = "value"
    /\ op' = [op EXCEPT !.step = "encoded", !.enc = HostInterfaceMarshal(op.x)]
    /\ UNCHANGED <<client, call, log, last, tf>>

\* the server echoes the object with every number rendered as a decimal string
ServerEcho ==
    /\ op.phase = "codec" /\ op.step = "encoded"
    /\ op' = [op EXCEPT !.step = "echoed",
                        !.json = [i \in 1..Len(op.enc) |->
                                    IF op.enc[i][2].t = "num"
                                    THEN KV(op.enc[i][1],
                                            StrPayload(Itoa(op.enc[i][2].n)))
                                    ELSE op.enc[i]]]
    /\ UNCHANGED <<client, call, log, last, tf>>

\* json.Unmarshal(data, &hi) for a HostInterface
UnmarshalInterface ==
    /\ op.phase = "codec" /\ op.step = "echoed"
    /\ LET hij == hostInterfaceJSON(op.json) IN
       op' = [op EXCEPT !.step = "decoded", !.hij = hij,
                        !.out = IF hij.ok THEN HostInterfaceUnmarshal(hij.v)
                                ELSE [ok |-> FALSE,
                                      err |-> [kind |-> "json", raw |-> <<>>]]]
    /\ UNCHANGED <<client, call, log, last, tf>>

\* json.Unmarshal(data, &h) for a Host
UnmarshalHost ==
    /\ op.phase = "codec" /\ op.step = "wirehost"
    /\ op' = [op EXCEPT !.step = "hostdecoded", !.out = HostUnmarshal(op.w[1])]
    /\ UNCHANGED <<client, call, log, last, tf>>

\* the codecs, and the two reads of a host that decode what the server sent
CodecNext ==
    \/ MarshalInterface \/ ServerEcho \/ UnmarshalInterface \/ UnmarshalHost
    \/ GetHost \/ GetHostByName \/ OperationReturn

CodecSpec == CodecInit /\ [][CodecNext]_vars

-----------------------------------------------------------------------------
(* ZabbixProvider.Configure: unnamed/part_010 *)

\* a setting where the environment wins whenever the variable is set
ResolveEnvFirst(attr, env) ==
    IF env # "" THEN env
    ELSE IF attr.state = "known" THEN attr.value ELSE ""
\* v := os.Getenv(name); if !attr.IsNull() { v = attr.ValueString() }
\* (ValueString of an unknown value is the empty string)
Resolve(attr, env) ==
    IF attr.state # "null"
    THEN IF attr.state = "known" THEN attr.value ELSE ""
    ELSE env

\* Configure(ctx, req, resp): the configuration attributes are null, unknown or
\* known strings; os.Getenv gives "" for a variable that is not set
ProviderConfigure ==
    LET attrs(values) ==
            {[state |-> "null", value |-> ""], [state |-> "unknown", value |-> ""]}
            \cup {[state |-> "known", value |-> v] : v \in values}
    IN
    \E cfgURL \in attrs({"", "https://config.example.com/api_jsonrpc.php"}),
       cfgToken \in attrs({"", "config-token"}),
       envURL \in {"", "https://env.example.com/api_jsonrpc.php",
                   "http://127.0.0.1:8080/api_jsonrpc.php"},
       envToken \in {"", "env-token", "test-token"} :
        LET url == Resolve(cfgURL, envURL)
            apiToken == Resolve(cfgToken, envToken)
            e1 == IF url = "" THEN <<"Missing URL Configuration">> ELSE <<>>
            e2 == IF apiToken = "" THEN <<"Missing API Token Configuration">> ELSE <<>>
        IN  /\ tf' = [handler |-> "Configure", kind |-> "provider",
                      config |-> [URL |-> cfgURL, APIToken |-> cfgToken],
                      env |-> [ZABBIX_URL |-> envURL, ZABBIX_API_TOKEN |-> envToken],
                      url |-> url, apiToken |-> apiToken, errors |-> e1 \o e2]
            /\ UNCHANGED <<client, call, log, last, op>>

ProviderSpec == Init /\ [][ProviderConfigure]_vars

-----------------------------------------------------------------------------
(* Properties of the transport client *)

HasReturned == last # NoCall
Answered == HasReturned /\ last.resp.kind = "http"

\* C1: a call returns a result only if the response envelope's id equals the id of
\* its request; a decoded response with another id makes the call fail with the
\* 'response id mismatch' failure and no result.
C1_ResultOnlyOnMatchingID ==
    Answered /\ Decodes(last.resp.body) =>
        /\ last.ret.err = NoError => last.resp.body.id = last.req.ID
        /\ (last.resp.StatusCode = StatusOK /\ last.resp.body.id # last.req.ID)
              => last.ret = Failure(IDMismatchError)

\* C2: on a cold client the k-th sequential call carries request id k, whatever the
\* methods and the outcomes of the earlier calls.
C2_SequentialIDs ==
    /\ \A k \in 1..Len(log) : log[k] = k
    /\ \A c \in Callers :
         call[c] # NoCall => call[c].req.ID = Len(log) /\ call[c].wire.id = Len(log)
    /\ HasReturned => last.req.ID \in 1..Len(log)

C2_Witness ==
    /\ Len(log) = 3
    /\ call[1] # NoCall /\ call[1].fn = "Request" /\ call[1].wire.id = 3
    /\ HasReturned /\ last.req.ID = 2 /\ last.ret.err # NoError
    /\ last.method # call[1].method

\* C3: under every interleaving of concurrent callers no two requests carry the same
\* id, and the ids handed out are exactly 1..N for N calls.
C3_ConcurrentIDsUnique ==
    /\ \A i, j \in 1..Len(log) : i # j => log[i] # log[j]
    /\ {log[k] : k \in 1..Len(log)} = 1..Len(log)
    /\ \A c, d \in Callers :
         (c # d /\ call[c] # NoCall /\ call[d] # NoCall)
            => call[c].wire.id # call[d].wire.id

C3_Witness ==
    /\ Len(log) >= 2
    /\ \A c \in Callers : call[c] # NoCall

\* the envelope of one request obeys the auth rule
AuthRule(method, wire) ==
    IF method = "apiinfo.version"
    THEN wire.auth = Absent
    ELSE DecodedAuth(wire) = client.Token

\* C4: the envelope for apiinfo.version never carries an auth token and the
\* envelope for every other method carries exactly the client's token.
C4_AuthInjection ==
    /\ \A c \in Callers : call[c] # NoCall => AuthRule(call[c].method, call[c].wire)
    /\ (HasReturned /\ last.wire # Absent) => AuthRule(last.method, last.wire)

C4_Witness ==
    /\ client.Token = "test-token"
    /\ call[1] # NoCall /\ call[1].method = "apiinfo.version"
    /\ call[1].wire.auth = Absent
    /\ HasReturned /\ last.method = "host.get"
    /\ last.wire # Absent /\ last.wire.auth = StrPayload("test-token")

\* C5: a response with a non-2xx status makes Request fail with an HTTPError holding
\* that status code and status line, whatever the body; the body is not decoded.
C5_NonSuccessStatusIsHTTPError ==
    (Answered /\ last.fn = "Request" /\ last.resp.StatusCode \notin 200..299) =>
        last.ret = Failure([kind |-> "HTTPError",
                            StatusCode |-> last.resp.StatusCode,
                            Status |-> StatusLine(last.resp.StatusCode)])

C5_Witness ==
    /\ Answered /\ last.fn = "Request"
    /\ last.resp.StatusCode = 404
    /\ Decodes(last.resp.body)
    /\ last.resp.body.result # Absent
    /\ last.resp.body.id = last.req.ID
    /\ last.ret.err.kind = "HTTPError"

\* C6: a decoded response envelope with an error object makes Request fail with an
\* APIError whose Method is the method of the call and whose inner error is the
\* envelope's error; no result is returned.
C6_ErrorObjectIsAPIError ==
    (/\ Answered /\ last.fn = "Request"
     /\ last.resp.StatusCode = StatusOK
     /\ Decodes(last.resp.body)
     /\ last.resp.body.error # Absent) =>
        /\ last.ret.result = Nil
        /\ last.ret.err = [kind |-> "APIError", Method |-> last.method,
                           Err |-> last.resp.body.error]

C6_Witness ==
    /\ Answered /\ last.fn = "Request" /\ last.method = "host.get"
    /\ last.resp.StatusCode = StatusOK
    /\ Decodes(last.resp.body)
    /\ last.resp.body.error # Absent
    /\ last.resp.body.error.Code = -32602
    /\ last.resp.body.result # Absent
    /\ last.ret.err.kind = "APIError"

\* C7: a RequestWithContext call whose context is cancelled before the server
\* answers eventually returns the 'context canceled' failure and no result, without
\* an answer of the server.
C7_CancelledCallReturns ==
    \A c \in {1} :
        (call[c] # NoCall /\ call[c].fn = "RequestWithContext"
            /\ call[c].ctx = "canceled")
        ~> (/\ call[c] = NoCall
            /\ HasReturned /\ last.fn = "RequestWithContext"
            /\ last.resp = NoResponse
            /\ last.ret = Failure(CtxCanceledError))

C7_Witness ==
    /\ HasReturned /\ last.fn = "RequestWithContext"
    /\ last.ctx = "canceled" /\ last.posts = 1
    /\ last.resp = NoResponse
    /\ last.ret = Failure(CtxCanceledError)

-----------------------------------------------------------------------------
(* Properties of the entity operations *)

OpReturned == op.phase = "returned"

\* the transport call of the returned operation succeeded with the id list `ids`
\* under the key the operation reads
SucceededWithIDs(ids) ==
    /\ OpReturned
    /\ op.out.err = NoError
    /\ op.resp.body.result = IDsPayload(IDKey(op.kind), ids)

\* C8: for each entity kind and each of Create, Update and Delete: when the
\* transport call succeeds and the result's id list is empty the operation returns
\* an error; when the list holds one id the operation succeeds, and Create returns
\* exactly that id.
C8_EmptyIDListIsError ==
    OpReturned /\ op.class \in {"create", "update", "delete"} =>
        /\ SucceededWithIDs(<<>>) => op.ret.err = NoIDsError(op.method)
        /\ \A id \in EntityIDs :
              SucceededWithIDs(<<id>>) =>
                  /\ op.ret.err = NoError
                  /\ op.class = "create" => op.ret.value = id

C8_Witness ==
    /\ SucceededWithIDs(<<>>)
    /\ op.op = "DeleteTemplateGroup"
    /\ op.ret.err # NoError

C8_WitnessOneID ==
    /\ SucceededWithIDs(<<"10084">>)
    /\ op.op = "CreateTemplate"
    /\ op.ret = Ret("10084", NoError)

\* C9: for each entity kind, Get(id) and GetByName(name) on a successful response
\* whose result is an empty array return the nil entity together with a nil error.
C9_AbsenceIsNilNotError ==
    (/\ OpReturned /\ op.class = "get"
     /\ op.out.err = NoError
     /\ op.resp.body.result = ArrPayload(<<>>))
        => op.ret = Ret(Nil, NoError)

C9_Witness ==
    /\ OpReturned /\ op.op = "GetTemplateByHost"
    /\ op.out.err = NoError
    /\ op.resp.body.result = ArrPayload(<<>>)
    /\ op.ret.value = Nil

-----------------------------------------------------------------------------
(* Properties of the resource handlers *)

\* the last call of the handler that ran last was a Get that found nothing, and
\* every call before it succeeded
ReadBackNotFound ==
    /\ tf # NoHandler
    /\ Len(tf.calls) >= 1
    /\ tf.calls[Len(tf.calls)].op \in
          {"GetHost", "GetHostGroup", "GetTemplate", "GetTemplateGroup"}
    /\ tf.calls[Len(tf.calls)].ret = Ret(Nil, NoError)
    /\ \A i \in 1..(Len(tf.calls) - 1) : tf.calls[i].ret.err = NoError

\* C10: for every resource kind, when the read-back Get that follows a successful
\* Create or Update returns 'not found', the handler reports an error diagnostic and
\* writes no state; 'not found' during a plain Read removes the resource from state
\* without an error.
C10_NotFoundAfterMutationIsError ==
    ReadBackNotFound =>
        /\ tf.handler \in {"Create", "Update"} =>
              Len(tf.errors) > 0 /\ ~tf.stateSet
        /\ tf.handler = "Read" => tf.removed /\ Len(tf.errors) = 0

\* the part of C10 the code keeps: Read removes the resource of every kind, and the
\* host and template handlers report the error
C10_HostAndTemplateKeepIt ==
    ReadBackNotFound =>
        /\ (tf.handler \in {"Create", "Update"} /\ tf.kind \in {"host", "template"}) =>
              Len(tf.errors) > 0 /\ ~tf.stateSet /\ ~tf.panicked
        /\ (tf.handler \in {"Create", "Update"}
            /\ tf.kind \in {"hostgroup", "templategroup"}) =>
              tf.panicked /\ Len(tf.errors) = 0 /\ ~tf.stateSet
        /\ tf.handler = "Read" =>
              tf.removed /\ Len(tf.errors) = 0 /\ tf.state = Nil /\ ~tf.panicked

-----------------------------------------------------------------------------
(* Properties of the parameters the entity operations send *)

OpStarted == op.phase \in {"inflight", "returned"}

\* the member `k` of the keyed object `m` is set
HasKey(m, k) == \E i \in 1..Len(m) : m[i][1] = k

\* the value of the member `k` of the keyed object `m`
ValueOf(m, k) == m[CHOOSE i \in 1..Len(m) : m[i][1] = k][2]

\* C11: every Delete operation (DeleteHost, DeleteHostGroup, DeleteTemplate,
\* DeleteTemplateGroup) sends as params a bare array holding exactly the one given
\* id, never a keyed object; every Create, Get and Update operation sends a keyed
\* object.
C11_DeleteSendsBareArray ==
    OpStarted =>
        /\ op.class = "delete" =>
              /\ op.req.Params.t = "arr"
              /\ op.req.Params.items = <<op.input>>
        /\ op.class \in {"create", "get", "update"} => op.req.Params.t = "obj"

C11_Witness ==
    /\ OpReturned
    /\ op.op = "DeleteTemplateGroup"
    /\ op.req.Params.t = "arr"
    /\ op.req.Params.items = <<"10084">>
    /\ op.ret.err = NoError

\* C12: UpdateHost always includes the 'status' key in the host.update parameters,
\* with the entity's integer status, also when the status is 0; the key is never
\* omitted for any input host.
C12_UpdateHostAlwaysSendsStatus ==
    (OpStarted /\ op.op = "UpdateHost") =>
        /\ op.req.Method = "host.update"
        /\ HasKey(op.req.Params.m, "status")
        /\ ValueOf(op.req.Params.m, "status") = op.input.Status
        /\ ValueOf(op.req.Params.m, "status") \in Int

C12_Witness ==
    /\ OpReturned
    /\ op.op = "UpdateHost"
    /\ op.input.Status = 0
    /\ HasKey(op.req.Params.m, "status")
    /\ ValueOf(op.req.Params.m, "status") = 0

\* the list members a Create operation may send, and the list each is built from
ListMembers(kind, entity) ==
    IF kind = "host"
    THEN <<KV("groups", entity.Groups), KV("interfaces", entity.Interfaces),
           KV("templates", entity.Templates), KV("tags", entity.Tags.items)>>
    ELSE <<KV("groups", entity.Groups), KV("tags", entity.Tags.items)>>

\* C13: Create omits empty optional fields from the parameter object: CreateHost and
\* CreateTemplate include the 'name' key if and only if the entity's visible name
\* is non-empty (CreateTemplate includes 'description' iff it is non-empty), and
\* include the 'groups', 'interfaces', 'templates' and 'tags' keys only when the
\* corresponding list is non-empty.
C13_CreateOmitsEmptyFields ==
    (OpStarted /\ op.op \in {"CreateHost", "CreateTemplate"}) =>
        LET m == op.req.Params.m
            lists == ListMembers(op.kind, op.input)
        IN  /\ HasKey(m, "name") <=> op.input.Name # ""
            /\ HasKey(m, "name") => ValueOf(m, "name") = op.input.Name
            /\ op.op = "CreateTemplate" =>
                  (HasKey(m, "description") <=> op.input.Description # "")
            /\ op.op = "CreateHost" => ~HasKey(m, "description")
            /\ \A i \in 1..Len(lists) :
                  HasKey(m, lists[i][1]) => Len(lists[i][2]) > 0
            /\ \A k \in {"interfaces", "templates"} :
                  op.op = "CreateTemplate" => ~HasKey(m, k)

C13_Witness ==
    /\ OpReturned
    /\ op.op = "CreateTemplate"
    /\ op.input.Name = "" /\ op.input.Description = ""
    /\ op.input.Groups = <<>> /\ op.input.Tags = Slice(<<>>)
    /\ op.req.Params = Obj(<<KV("host", op.input.Host)>>)

C13_WitnessPopulated ==
    /\ OpReturned
    /\ op.op = "CreateHost"
    /\ op.input.Name # ""
    /\ \A k \in {"name", "groups", "interfaces", "templates", "tags"} :
          HasKey(op.req.Params.m, k)

-----------------------------------------------------------------------------
(* Properties of the host codecs *)

CodecAt(step) == op.phase = "codec" /\ op.step = step

\* C14: round trip of the interface codec: for every HostInterface value x,
\* MarshalJSON emits type, main and useip as JSON integers equal to x's fields, and
\* decoding with UnmarshalJSON the same object with those three fields rendered as
\* decimal strings yields an interface equal to x (same Type, Main, UseIP, IP, DNS,
\* Port and InterfaceID).
C14_InterfaceRoundTrip ==
    /\ (op.phase = "codec" /\ op.step \in {"encoded", "echoed", "decoded"}
        /\ op.enc # <<>>) =>
          /\ ValueOf(op.enc, "type") = [t |-> "num", n |-> op.x.Type]
          /\ ValueOf(op.enc, "main") = [t |-> "num", n |-> op.x.Main]
          /\ ValueOf(op.enc, "useip") = [t |-> "num", n |-> op.x.UseIP]
    /\ (CodecAt("decoded") /\ op.enc # <<>>) =>
          /\ \A i \in 1..Len(op.json) : op.json[i][2].t = "str"
          /\ op.out.ok
          /\ op.out.v = op.x

C14_Witness ==
    /\ CodecAt("decoded") /\ op.enc # <<>>
    /\ op.x.Type = 12 /\ op.x.Main = 0 /\ op.x.InterfaceID = ""
    /\ ValueOf(op.json, "type") = [t |-> "str", s |-> <<"1", "2">>]
    /\ ~HasKey(op.json, "interfaceid")
    /\ op.out.ok /\ op.out.v = op.x

C14_WitnessNegative ==
    /\ CodecAt("decoded") /\ op.enc # <<>>
    /\ op.x.Type = -1
    /\ ValueOf(op.json, "type") = [t |-> "str", s |-> <<"-", "1">>]
    /\ op.out.ok /\ op.out.v.Type = -1

\* wire strings and the integers they denote
SampleParses ==
    {<<<<"0">>, 0>>, <<<<"1">>, 1>>, <<<<"1", "0">>, 10>>, <<<<"0", "7">>, 7>>,
     <<<<"-", "1">>, -1>>, <<<<"+", "2">>, 2>>}

\* a non-empty string that is not an integer
Unparsable(s) == s # <<>> /\ ~IsInt(s)

\* the integer a numeric wire string leaves in its field
FieldValue(s) == IF s = <<>> THEN 0 ELSE Atoi(s)

\* the error the interface decoder returns for the member `k`
InterfaceFieldError(k, raw) ==
    [kind |-> CASE k = "type" -> "invalid interface type value"
                [] k = "main" -> "invalid interface main value"
                [] k = "useip" -> "invalid interface useip value",
     raw |-> raw]

InterfaceUnparsable(h) == \E k \in {"type", "main", "useip"} : Unparsable(h[k])

HostUnparsable(w) ==
    \/ Unparsable(w.status)
    \/ \E i \in 1..Len(w.interfaces) : InterfaceUnparsable(w.interfaces[i])

\* C15: decoding a Host or HostInterface: for each numeric wire field (host status;
\* interface type, main, useip), a non-empty string that is not an integer makes
\* the decode fail with an error naming that field and its raw value, an integer
\* string yields that integer, and an empty or absent string leaves the field at 0;
\* consequently GetHost/GetHostByName return an error and no entity when any
\* returned host has an unparsable numeric field.
C15_NumericFieldsParseOrFail ==
    /\ \A p \in SampleParses : IsInt(p[1]) /\ Atoi(p[1]) = p[2]
    /\ \A bad \in {<<"x">>, <<"1", "x">>, <<"-">>} : ~IsInt(bad)
    /\ (CodecAt("decoded") /\ op.hij.ok) =>
          LET h == op.hij.v IN
          IF InterfaceUnparsable(h)
          THEN /\ ~op.out.ok
               /\ \E k \in {"type", "main", "useip"} :
                     Unparsable(h[k]) /\ op.out.err = InterfaceFieldError(k, h[k])
          ELSE /\ op.out.ok
               /\ op.out.v.Type = FieldValue(h.type)
               /\ op.out.v.Main = FieldValue(h.main)
               /\ op.out.v.UseIP = FieldValue(h.useip)
               /\ \A k \in {"type", "main", "useip"} :
                     ~HasKey(op.json, k) => h[k] = <<>>
    /\ CodecAt("hostdecoded") =>
          LET w == op.w[1] IN
          IF HostUnparsable(w)
          THEN /\ ~op.out.ok
               /\ (\A i \in 1..Len(w.interfaces) :
                       ~InterfaceUnparsable(w.interfaces[i]))
                     => op.out.err = [kind |-> "invalid status value", raw |-> w.status]
          ELSE op.out.ok /\ op.out.v.Status = FieldValue(w.status)
    /\ (/\ OpReturned /\ op.op \in {"GetHost", "GetHostByName"}
        /\ op.out.err = NoError
        /\ op.resp.body.result.t = "arr"
        /\ \E i \in 1..Len(op.resp.body.result.items) :
              HostUnparsable(op.resp.body.result.items[i]))
          => op.ret.value = Nil /\ op.ret.err = UnmarshalError(op.method)

C15_Witness ==
    /\ CodecAt("decoded") /\ op.hij.ok
    /\ op.hij.v.type = <<"1", "x">>
    /\ ~op.out.ok
    /\ op.out.err = [kind |-> "invalid interface type value", raw |-> <<"1", "x">>]

C15_WitnessAbsent ==
    /\ CodecAt("decoded") /\ op.hij.ok
    /\ ~HasKey(op.json, "type") /\ HasKey(op.json, "main")
    /\ ValueOf(op.json, "main") = StrPayload(<<"1">>)
    /\ op.out.ok /\ op.out.v.Type = 0 /\ op.out.v.Main = 1

C15_WitnessGetHost ==
    /\ OpReturned /\ op.op = "GetHost"
    /\ op.out.err = NoError
    /\ op.resp.body.result.t = "arr"
    /\ Len(op.resp.body.result.items) = 1
    /\ op.resp.body.result.items[1].status = <<"o", "n">>
    /\ op.ret = Ret(Nil, UnmarshalError("host.get"))

C15_WitnessHostStatus ==
    /\ CodecAt("hostdecoded")
    /\ op.w[1].status = <<"-", "1">>
    /\ op.out.ok /\ op.out.v.Status = -1

-----------------------------------------------------------------------------
(* Properties of the errors the entity operations return *)

\* the transport call of the returned operation failed with an error of `kind`
TransportFailed(kind) == OpReturned /\ op.out.err.kind = kind

\* C16: entity operations propagate transport-client failures unchanged in kind:
\* when the underlying request fails with an APIError or an HTTPError, every
\* Create/Get/GetByName/Update/Delete returns that same error value (an *APIError
\* whose Method is the entity's RPC method, or the *HTTPError), not a re-wrapped or
\* re-classified error.
C16_TransportErrorsPropagate ==
    (OpReturned /\ op.class \in {"create", "get", "update", "delete"}) =>
        /\ TransportFailed("APIError") =>
              /\ op.ret.err = op.out.err
              /\ op.ret.err.kind = "APIError"
              /\ op.ret.err.Method = op.method
              /\ op.ret.err.Err = op.resp.body.error
        /\ TransportFailed("HTTPError") =>
              /\ op.ret.err = op.out.err
              /\ op.ret.err.kind = "HTTPError"
              /\ op.ret.err.StatusCode = op.resp.StatusCode
        /\ (TransportFailed("APIError") \/ TransportFailed("HTTPError")) =>
              IF op.class = "create" THEN op.ret.value = "" ELSE op.ret.value = Nil

C16_Witness ==
    /\ TransportFailed("APIError")
    /\ op.op = "DeleteHostGroup"
    /\ op.ret.err.kind = "APIError"
    /\ op.ret.err.Method = "hostgroup.delete"
    /\ op.ret.err.Err.Code = -32602

C16_WitnessHTTPError ==
    /\ TransportFailed("HTTPError")
    /\ op.op = "CreateHost"
    /\ op.ret = Ret("", [kind |-> "HTTPError", StatusCode |-> 500,
                         Status |-> StatusLine(500)])

-----------------------------------------------------------------------------
(* Properties of the provider configuration *)

Configured == tf.handler = "Configure"

\* what the claim says a setting resolves to
Resolved(attr, env) == IF attr.state = "null" THEN env ELSE attr.value

\* C17: Provider.Configure resolves the endpoint URL and the API token
\* independently: each takes the value of the provider configuration attribute when
\* that attribute is non-null, and otherwise the environment variable (ZABBIX_URL,
\* ZABBIX_API_TOKEN); Configure reports an error diagnostic if and only if a
\* resolved value is empty.
C17_ConfigBeforeEnvironment ==
    Configured =>
        /\ tf.url = Resolved(tf.config.URL, tf.env.ZABBIX_URL)
        /\ tf.apiToken = Resolved(tf.config.APIToken, tf.env.ZABBIX_API_TOKEN)
        /\ (Len(tf.errors) > 0) <=> (tf.url = "" \/ tf.apiToken = "")

C17_Witness ==
    /\ Configured
    /\ tf.config.URL = [state |-> "known",
                        value |-> "https://config.example.com/api_jsonrpc.php"]
    /\ tf.env.ZABBIX_URL = "https://env.example.com/api_jsonrpc.php"
    /\ tf.config.APIToken.state = "null"
    /\ tf.env.ZABBIX_API_TOKEN = "env-token"
    /\ tf.url = "https://config.example.com/api_jsonrpc.php"
    /\ tf.apiToken = "env-token"
    /\ tf.errors = <<>>

C17_WitnessMissing ==
    /\ Configured
    /\ tf.config.URL.state = "null" /\ tf.env.ZABBIX_URL = ""
    /\ tf.apiToken = "config-token"
    /\ tf.errors = <<"Missing URL Configuration">>

-----------------------------------------------------------------------------
(* Properties of the transport client: effects of a call *)

\* C18: a single invocation of Request issues at most one HTTP POST: after any
\* failure (connection error, non-2xx status, decode failure, protocol error, id
\* mismatch) the call returns that failure to its caller once and never sends the
\* request again.
C18_AtMostOnePost ==
    [][\A c \in Callers :
          /\ (call[c] = NoCall /\ call'[c] # NoCall) => call'[c].posts <= 1
          /\ (call[c] # NoCall /\ call'[c] # NoCall) =>
                /\ call'[c].req.ID = call[c].req.ID
                /\ call'[c].posts = call[c].posts
          /\ (call[c] # NoCall /\ call'[c] = NoCall) =>
                /\ last'.req.ID = call[c].req.ID
                /\ last'.posts = call[c].posts
                /\ last'.posts <= 1
          /\ (last' # last) =>
                /\ last'.posts <= 1
                /\ call'[last'.caller] = NoCall
      ]_vars

C18_Witness ==
    /\ HasReturned
    /\ last.fn = "Request"
    /\ last.ret.err.kind = "HTTPError"
    /\ last.posts = 1
    /\ call[1] = NoCall

\* a step in which a caller invokes Request or RequestWithContext: the call goes
\* in flight, or returns at once because its request could not be built
Invoked ==
    \/ \E c \in Callers : call[c] = NoCall /\ call'[c] # NoCall
    \/ call' = call /\ last' # last

\* C19: Request changes no client state other than the request-id counter: the
\* client's URL, Token and timeout are the same after any sequence of calls as at
\* construction, and the counter increases by exactly 1 per invocation whether the
\* call succeeds or fails (an id used by a failed call is never reused).
C19_OnlyTheCounterChanges ==
    /\ [](/\ client.Timeout = DefaultTimeout
          /\ client.URL \in URLs /\ client.Token \in Tokens
          /\ client.requestID = Len(log)
          /\ \A i \in 1..Len(log) : log[i] = i)
    /\ [][/\ client'.URL = client.URL
          /\ client'.Token = client.Token
          /\ client'.Timeout = client.Timeout
          /\ client'.requestID =
                IF Invoked THEN client.requestID + 1 ELSE client.requestID
      ]_vars

C19_Witness ==
    /\ HasReturned
    /\ last.fn = "Request"
    /\ last.ret.err # NoError
    /\ last.req.ID = 1
    /\ call[1] # NoCall
    /\ call[1].req.ID = 2
    /\ client = [NewClient("http://zabbix.example/api_jsonrpc.php", "test-token")
                    EXCEPT !.requestID = 2]

\* Request returned the decode error for the body it was answered with, and no
\* result
ReturnedDecodeError ==
    /\ last.ret.err.kind = "decode"
    /\ last.ret.err.cause = last.resp.body.t
    /\ last.ret.err.kind \notin {"HTTPError", "APIError"}
    /\ last.ret.result = Nil

\* C20: if the HTTP response has a success status but its body is not a valid
\* response envelope, Request fails with a decode error that wraps the underlying
\* cause; this failure is neither an HTTPError nor an APIError, and no result is
\* returned.
C20_InvalidBodyIsDecodeError ==
    (/\ Answered /\ last.fn = "Request"
     /\ last.resp.StatusCode \in 200..299
     /\ ~Decodes(last.resp.body))
        => ReturnedDecodeError

\* the part of C20 the code keeps: the answers with status 200
C20_InvalidBodyOnStatusOK ==
    (/\ Answered /\ last.fn = "Request"
     /\ last.resp.StatusCode = StatusOK
     /\ ~Decodes(last.resp.body))
        => ReturnedDecodeError

C20_WitnessStatusOK ==
    /\ Answered /\ last.fn = "Request"
    /\ last.resp.StatusCode = StatusOK
    /\ last.resp.body = [t |-> "text"]
    /\ last.ret = Failure([kind |-> "decode", cause |-> "text"])

-----------------------------------------------------------------------------
(* Properties of the template resource *)

\* TemplateResource.Create imported a source that names a template, in `format`,
\* the import succeeded, and every call the handler made after it found the template
ImportedAndPresent(format) ==
    /\ tf.handler = "Create" /\ tf.kind = "template"
    /\ Len(tf.calls) >= 1
    /\ tf.calls[1].op = "ImportConfiguration"
    /\ tf.calls[1].input[1] = format
    /\ Len(tf.calls[1].input[2]) = 2
    /\ tf.calls[1].input[2][2].key = "template:"
    /\ tf.calls[1].input[2][2].rest # <<>>
    /\ tf.calls[1].ret.err = NoError
    /\ \A i \in 2..Len(tf.calls) :
          /\ tf.calls[i].ret.err = NoError
          /\ tf.calls[i].op \in {"GetTemplateByHost", "GetTemplate"} =>
                tf.calls[i].ret.value # Nil

\* the handler found the imported template and stored it
FoundAndStored ==
    /\ Len(tf.calls) >= 3
    /\ tf.calls[2].op = "GetTemplateByHost"
    /\ tf.calls[3].op = "GetTemplate"
    /\ tf.calls[3].input = tf.calls[2].ret.value.TemplateID
    /\ tf.errors = <<>>
    /\ tf.stateSet
    /\ tf.state.ID = tf.calls[3].ret.value.TemplateID

\* C21: the zabbix_template resource accepts source_content in each of the formats
\* yaml, xml and json: for every such source_format, when configuration.import
\* succeeds and the imported template exists on the server, TemplateResource.Create
\* finds the template, records its id in state and reports no error.
C21_EverySourceFormatIsFound ==
    \A format \in {"yaml", "xml", "json"} :
        ImportedAndPresent(format) => FoundAndStored

\* the part of C21 the code keeps: a yaml source
C21_YamlSourceIsFound ==
    ImportedAndPresent("yaml") => FoundAndStored

C21_WitnessYaml ==
    /\ ImportedAndPresent("yaml")
    /\ tf.calls[2].input = <<"T">>
    /\ FoundAndStored

\* what the code does with a json or xml source: no lookup, an error, no state
C21_OtherFormatsAreNotFound ==
    \A format \in {"xml", "json"} :
        ImportedAndPresent(format) =>
            /\ Len(tf.calls) = 1
            /\ tf.errors = <<"Error Finding Template">>
            /\ ~tf.stateSet

-----------------------------------------------------------------------------
(* Properties of what Request returns *)

\* Request was answered over HTTP with a status in the given set
AnsweredWith(statuses) ==
    /\ Answered /\ last.fn = "Request"
    /\ last.resp.StatusCode \in statuses

\* the answer went on to envelope decoding: what Request returned is what decoding
\* the body gives, and it is no HTTPError
PassedToDecoding ==
    /\ last.ret.err.kind # "HTTPError"
    /\ ~Decodes(last.resp.body) => last.ret.err.kind = "decode"
    /\ Decodes(last.resp.body) =>
          LET r == DecodeResponse(last.resp.body) IN
          IF r.Error # Nil
          THEN last.ret = Failure(MakeAPIError(last.method, r.Error))
          ELSE last.ret = Success(r.Result)

\* C22: a Transport Error is produced only for a non-success HTTP status: every
\* response with a 2xx status (200, 201, 204, ...) is passed on to envelope decoding
\* and never yields an HTTPError.
C22_SuccessStatusIsDecoded ==
    AnsweredWith(200..299) => PassedToDecoding

\* the part of C22 the code keeps: status 200 is decoded, and a status outside 2xx
\* is an HTTPError carrying the status code and line
C22_StatusOKIsDecoded ==
    /\ AnsweredWith({StatusOK}) => PassedToDecoding
    /\ (Answered /\ last.fn = "Request" /\ last.resp.StatusCode \notin 200..299) =>
          last.ret = Failure([kind |-> "HTTPError",
                              StatusCode |-> last.resp.StatusCode,
                              Status |-> last.resp.Status])

C22_WitnessStatusOK ==
    /\ AnsweredWith({StatusOK})
    /\ last.resp.body.t = "json"
    /\ last.ret = Success(StrPayload("ok"))

\* what the code does with a 2xx status other than 200
C22_NoContentIsHTTPError ==
    AnsweredWith({204}) =>
        last.ret = Failure([kind |-> "HTTPError", StatusCode |-> 204,
                            Status |-> "204 No Content"])

\* Request returned a result and no error, or an error and no result
ResultXorError ==
    /\ last.ret.err # NoError => last.ret.result = Nil
    /\ last.ret.err = NoError =>
          /\ last.ret.result # Nil
          /\ Answered
          /\ Decodes(last.resp.body)
          /\ last.ret.result = last.resp.body.result

\* the answer is an envelope that has neither a result nor an error member
EmptyEnvelope ==
    /\ Answered
    /\ last.resp.StatusCode = StatusOK
    /\ Decodes(last.resp.body)
    /\ last.resp.body.result = Absent
    /\ last.resp.body.error = Absent

\* C23: Request returns either a result or an error, never both and never neither:
\* on every failure path the returned result is nil, and when the returned error is
\* nil the result is the raw 'result' payload of the response envelope of that same
\* request.
C23_ResultOrErrorNeverBothNorNeither ==
    (HasReturned /\ last.fn = "Request") => ResultXorError

\* the part of C23 the code keeps: never both, and exactly one of the two unless
\* the envelope has neither member
C23_ResultOrErrorUnlessEmptyEnvelope ==
    (HasReturned /\ last.fn = "Request") =>
        /\ ~(last.ret.err # NoError /\ last.ret.result # Nil)
        /\ ~EmptyEnvelope => ResultXorError

C23_WitnessResult ==
    /\ HasReturned /\ last.fn = "Request"
    /\ last.ret.err = NoError
    /\ last.ret.result = StrPayload("ok")
    /\ last.resp.body.result = StrPayload("ok")

C23_WitnessError ==
    /\ HasReturned /\ last.fn = "Request"
    /\ last.ret.err.kind = "APIError"
    /\ last.resp.body.result = StrPayload("ok")
    /\ last.ret.result = Nil

\* what the code does with an envelope that has neither member: no result, no error
C23_EmptyEnvelopeGivesNeither ==
    (HasReturned /\ last.fn = "Request" /\ EmptyEnvelope) =>
        last.ret = [result |-> Nil, err |-> NoError]

-----------------------------------------------------------------------------
(* Properties of the id a Create returns *)

\* C24: Create returns the first id of the result's id list for every non-empty
\* list: when the server reports several ids, CreateHost, CreateHostGroup,
\* CreateTemplate and CreateTemplateGroup return the first one without error and
\* ignore the others.
C24_CreateReturnsFirstID ==
    (/\ OpReturned /\ op.class = "create"
     /\ op.out.err = NoError
     /\ op.resp.body.result.t = "obj"
     /\ op.resp.body.result.key = IDKey(op.kind)
     /\ Len(op.resp.body.result.ids) >= 1)
        => op.ret = Ret(op.resp.body.result.ids[1], NoError)

C24_Witness ==
    /\ SucceededWithIDs(<<"10084", "10085">>)
    /\ op.op = "CreateHost"
    /\ op.ret = Ret("10084", NoError)

C24_WitnessGroup ==
    /\ SucceededWithIDs(<<"10084", "10085">>)
    /\ op.op = "CreateTemplateGroup"
    /\ op.ret = Ret("10084", NoError)

-----------------------------------------------------------------------------
(* Properties of the params a request carries *)

\* the params of an envelope on the wire, for the params the caller passed
SentParams(params, wire) ==
    /\ wire.params # Absent
    /\ wire.params # Nil
    /\ params = Nil => wire.params = EmptyObject
    /\ params # Nil => wire.params = params /\ wire.params.t \in {"obj", "arr"}

\* C25: a nil params argument is sent as an empty JSON object ({}), never as null
\* and never omitted; a non-nil params value (object or array) is sent unchanged.
C25_NilParamsAreEmptyObject ==
    /\ \A c \in Callers :
          (call[c] # NoCall /\ call[c].fn = "Request") =>
              SentParams(call[c].params, call[c].wire)
    /\ (HasReturned /\ last.fn = "Request" /\ last.posts = 1) =>
          SentParams(last.params, last.wire)

C25_Witness ==
    /\ HasReturned /\ last.fn = "Request" /\ last.posts = 1
    /\ last.params = Nil
    /\ last.wire.params = [t |-> "obj", m |-> <<>>]

C25_WitnessArray ==
    /\ HasReturned /\ last.fn = "Request" /\ last.posts = 1
    /\ last.params = [t |-> "arr", items |-> <<"10084">>]
    /\ last.wire.params = [t |-> "arr", items |-> <<"10084">>]

-----------------------------------------------------------------------------
(* Properties of an envelope that carries an error object *)

\* Request was answered with status 200 and a body that decodes as an envelope
DecodedEnvelope ==
    /\ AnsweredWith({StatusOK})
    /\ Decodes(last.resp.body)

\* C26: when a response envelope carries both an error object and a result payload,
\* Request returns the APIError and discards the result; the result is returned only
\* when the envelope has no error object.
C26_ErrorObjectWinsOverResult ==
    /\ (/\ DecodedEnvelope
        /\ last.resp.body.error # Absent
        /\ last.resp.body.result # Absent)
          => last.ret = Failure(MakeAPIError(last.method, last.resp.body.error))
    /\ (HasReturned /\ last.fn = "Request" /\ last.ret.result # Nil)
          => /\ DecodedEnvelope
             /\ last.resp.body.error = Absent
             /\ last.ret.result = last.resp.body.result

C26_Witness ==
    /\ DecodedEnvelope
    /\ last.method = "host.get"
    /\ last.resp.body.result = StrPayload("ok")
    /\ last.resp.body.error \in Errors
    /\ last.ret.err = MakeAPIError("host.get", last.resp.body.error)
    /\ last.ret.result = Nil

C26_WitnessResult ==
    /\ DecodedEnvelope
    /\ last.resp.body.error = Absent
    /\ last.ret = Success(StrPayload("ok"))

-----------------------------------------------------------------------------
(* Properties of the tags HostResource.Update sends *)

\* HostResource.Update called UpdateHost
HostUpdateSent ==
    /\ tf.handler = "Update" /\ tf.kind = "host"
    /\ Len(tf.calls) >= 1
    /\ tf.calls[1].op = "UpdateHost"

\* C27: the host.update request sent by HostResource.Update contains the 'tags' key
\* if and only if the planned tags list has at least one element: a plan whose tags
\* are null or an empty list produces a nil tag slice in modelToAPI, and UpdateHost
\* omits 'tags' for a nil slice (it sends 'tags' as an array, possibly empty, only
\* for a non-nil slice).
C27_TagsSentIffPlanned ==
    /\ HostUpdateSent =>
          LET host == tf.calls[1].input
              sent == UpdateHostParams(host).m
              planned == Len(tf.plannedTags.elems) >= 1
          IN  /\ HasKey(sent, "tags") <=> planned
              /\ ~planned => host.Tags = NilSlice
              /\ planned =>
                    /\ ~tf.plannedTags.null
                    /\ Len(ValueOf(sent, "tags")) = Len(tf.plannedTags.elems)
    /\ \A host \in SampleHosts :
          LET sent == UpdateHostParams(host).m IN
          /\ HasKey(sent, "tags") <=> ~host.Tags.isnil
          /\ HasKey(sent, "tags") => ValueOf(sent, "tags") = TagMaps(host.Tags.items)

C27_Witness ==
    /\ HostUpdateSent
    /\ tf.plannedTags = [null |-> FALSE, elems |-> <<>>]
    /\ tf.calls[1].input.Tags.isnil
    /\ ~HasKey(UpdateHostParams(tf.calls[1].input).m, "tags")

C27_WitnessNull ==
    /\ HostUpdateSent
    /\ tf.plannedTags.null
    /\ ~HasKey(UpdateHostParams(tf.calls[1].input).m, "tags")

C27_WitnessTagged ==
    /\ HostUpdateSent
    /\ Len(tf.plannedTags.elems) = 1
    /\ ValueOf(UpdateHostParams(tf.calls[1].input).m, "tags") =
          <<<<KV("tag", "env"), KV("value", "prod")>>>>

-----------------------------------------------------------------------------
(* Properties of the id across Update *)

\* the id entity operation `c` of a handler addresses, "" when it carries none
AddressedID(c) ==
    CASE c.op \in {"UpdateHost"} -> c.input.HostID
      [] c.op \in {"UpdateTemplate"} -> c.input.TemplateID
      [] c.op \in {"UpdateHostGroup", "UpdateTemplateGroup"} -> c.input[1]
      [] c.op \in {"GetHost", "GetHostGroup", "GetTemplate", "GetTemplateGroup"} ->
            c.input
      [] c.op = "ExportConfiguration" -> c.input[2][1]
      [] OTHER -> ""

UpdateRan == tf.handler = "Update" /\ Len(tf.calls) >= 1

\* every call of the Update addressed the id of the prior state, and the id it
\* wrote to state is that id
IDKeptAcrossUpdate ==
    /\ \A i \in 1..Len(tf.calls) : AddressedID(tf.calls[i]) = tf.prior.ID
    /\ (tf.stateSet /\ tf.errors = <<>>) => tf.state.ID = tf.prior.ID

ReadBackID ==
    LET v == tf.calls[2].ret.value IN
    CASE tf.kind = "host" -> v.HostID
      [] tf.kind = "template" -> v.TemplateID
      [] OTHER -> v.GroupID

\* the part of C28 the code keeps: an Update that does not re-import addresses the
\* id of the prior state in every call, and the id it writes is the id of the entity
\* the read-back returned, which is the prior id when the server returns the entity
\* it was asked for
C28_UpdateByIDKeepsID ==
    (UpdateRan /\ tf.calls[1].op # "ImportConfiguration") =>
        /\ \A i \in 1..Len(tf.calls) : AddressedID(tf.calls[i]) = tf.prior.ID
        /\ tf.stateSet => tf.state.ID = ReadBackID
        /\ (tf.stateSet /\ ReadBackID = tf.prior.ID) => tf.state.ID = tf.prior.ID

C28_WitnessHost ==
    /\ UpdateRan /\ tf.kind = "host"
    /\ tf.prior.ID = "10084"
    /\ tf.stateSet /\ tf.errors = <<>>
    /\ tf.state.ID = "10084"

C28_WitnessNotThePlan ==
    /\ UpdateRan /\ tf.kind = "template"
    /\ tf.prior.ID = "10085"
    /\ tf.calls[1].op = "UpdateTemplate"
    /\ tf.calls[1].input.TemplateID = "10085"
    /\ Len(tf.calls) = 3
    /\ tf.calls[3].input = <<"yaml", <<"10085">>>>

\* what the code does when the plan has source_content: the mutating call is the
\* import of that content, which carries no id
C28_ReimportCarriesNoID ==
    (UpdateRan /\ tf.kind = "template" /\ tf.calls[1].op = "ImportConfiguration") =>
        /\ AddressedID(tf.calls[1]) = ""
        /\ tf.calls[1].input[2] \in SourceContents
        /\ \A i \in 2..Len(tf.calls) : AddressedID(tf.calls[i]) = tf.prior.ID

-----------------------------------------------------------------------------
(* Properties of a failed export *)

\* a handler of the template resource called configuration.export last, and it failed
ExportFailed ==
    /\ tf.handler \in {"Create", "Read", "Update"}
    /\ tf.kind = "template"
    /\ Len(tf.calls) >= 2
    /\ tf.calls[Len(tf.calls)].op = "ExportConfiguration"
    /\ tf.calls[Len(tf.calls)].ret.err # NoError

\* C29: a failure of configuration.export in TemplateResource.Create, Read or Update
\* is reported as a warning, not an error: the operation still writes the template's
\* state, with exported_content set to null, and reports no error diagnostic for it.
C29_ExportFailureIsWarning ==
    /\ ExportFailed =>
          /\ tf.warnings = <<"Error Exporting Template">>
          /\ tf.errors = <<>>
          /\ tf.stateSet /\ ~tf.removed
          /\ tf.state.ExportedContent = Nil
          /\ tf.state.ID = tf.calls[Len(tf.calls) - 1].ret.value.TemplateID
    /\ (tf.handler \in {"Create", "Read", "Update"} /\ tf.kind = "template") =>
          \A i \in 1..Len(tf.errors) : tf.errors[i] # "Error Exporting Template"

C29_Witness ==
    /\ ExportFailed /\ tf.handler = "Create"
    /\ tf.warnings = <<"Error Exporting Template">>
    /\ tf.stateSet
    /\ tf.state.ExportedContent = Nil

C29_WitnessRead ==
    /\ ExportFailed /\ tf.handler = "Read"
    /\ tf.calls[2].ret.err.kind = "APIError"
    /\ tf.stateSet /\ tf.errors = <<>>

C29_WitnessUpdate ==
    /\ ExportFailed /\ tf.handler = "Update"
    /\ tf.calls[1].op = "ImportConfiguration"
    /\ tf.stateSet /\ tf.errors = <<>>

-----------------------------------------------------------------------------
(* Properties of absence in a data source *)

\* the single lookup of a Read returned the nil entity and no error
LookupFoundNothing ==
    /\ Len(tf.calls) = 1
    /\ tf.calls[1].ret = Ret(Nil, NoError)

NotFoundSummary(kind) ==
    CASE kind = "host" -> "Host Not Found"
      [] kind = "hostgroup" -> "Host Group Not Found"
      [] kind = "template" -> "Template Not Found"
      [] kind = "templategroup" -> "Template Group Not Found"

\* C30: every data source (host, host group, template, template group) treats
\* absence as an error: when GetByName returns 'not found', its Read reports a
\* 'Not Found' error diagnostic and writes no state, unlike a resource Read, which
\* removes the resource from state without error.
C30_DataSourceAbsenceIsError ==
    /\ (tf.handler = "DataSourceRead" /\ LookupFoundNothing) =>
          /\ tf.calls[1].op \in {"GetHostByName", "GetHostGroupByName",
                                 "GetTemplateByHost", "GetTemplateGroupByName"}
          /\ tf.errors = <<NotFoundSummary(tf.kind)>>
          /\ ~tf.stateSet /\ ~tf.removed
          /\ tf.state = Nil
    /\ (tf.handler = "Read" /\ LookupFoundNothing) =>
          /\ tf.removed /\ tf.state = Nil
          /\ tf.errors = <<>>
          /\ ~tf.stateSet

C30_Witness ==
    /\ tf.handler = "DataSourceRead" /\ tf.kind = "host"
    /\ LookupFoundNothing
    /\ tf.errors = <<"Host Not Found">>
    /\ ~tf.stateSet

C30_WitnessTemplate ==
    /\ tf.handler = "DataSourceRead" /\ tf.kind = "template"
    /\ LookupFoundNothing
    /\ tf.errors = <<"Template Not Found">>

C30_WitnessGroups ==
    /\ tf.handler = "DataSourceRead" /\ tf.kind \in {"hostgroup", "templategroup"}
    /\ LookupFoundNothing
    /\ Len(tf.errors) = 1

C30_WitnessResourceRead ==
    /\ tf.handler = "Read" /\ tf.kind = "host"
    /\ LookupFoundNothing
    /\ tf.removed /\ tf.errors = <<>>

====
